---- MODULE Spec2Model ----
(***************************************************************************)
(* A model of the midas-protocol backend: the token-bounded conversation   *)
(* memory (backend/memory.py), the provider health tracker and the /chat   *)
(* request handler (backend/application.py), and the worker and manager    *)
(* agent loops (backend/base_agent.py).                                    *)
(*                                                                         *)
(* Python values are modelled as follows.  A text (str) is a sequence of    *)
(* strings, its parts, so that concatenation and formatting is \o, the      *)
(* empty text is <<>>, and a prefix test or a replacement acts on parts.   *)
(* The Python value None, where a text may stand, is the reserved text     *)
(* None below, which is none of the texts the model draws.  A dict is a    *)
(* record, a list is a sequence.                                           *)
(***************************************************************************)
EXTENDS Integers, Sequences, FiniteSets, TLC

VARIABLES
    memory,      \* TokenBufferMemory: [max_tokens, messages]
    appended,    \* history: the messages appended since the last clear()
    memOp,       \* history: the last memory operation and its arguments
    providers,   \* ProviderManager.providers: name -> [status, reset_time]
    now,         \* the clock read by time.time(), in seconds
    ticks,       \* history: how many times the clock has advanced
    marked,      \* history: the last update_status of each backend
    pmOp,        \* history: the last ProviderManager operation
    wk,          \* the running SingleAgent.process_query: position and locals
    mg,          \* the running ManagerAgent.process_query: position and locals
    rq,          \* the running chat_endpoint: position, locals and response
    calls,       \* history: the backend calls of the current process_query
    runs,        \* history: how many times the manager's process_query started
    env,         \* os.environ: the server's API key of each backend, if set
    flights      \* the chat_endpoint invocations in flight at once, when the
                 \* server runs handlers concurrently: position and locals

memVars == <<memory, appended, memOp>>

pmVars == <<providers, now, ticks, marked, pmOp>>

agentVars == <<wk, mg, calls, runs>>

vars == <<memory, appended, memOp, providers, now, ticks, marked, pmOp,
          wk, mg, rq, calls, runs, env, flights>>

None == <<"<None>">>

\* None where a backend identifier, a status or a call id may stand.
NoneId == "<None>"

\* No API key is set in the environment.
NoEnv == [n \in {"groq", "gemini"} |-> NoneId]

\* No process_query and no request is running.
IdleAgent == [pc |-> "idle"]

IdleAgents ==
    /\ wk = IdleAgent
    /\ mg = IdleAgent
    /\ calls = <<>>
    /\ runs = 0

IdleRequest ==
    /\ rq = [pc |-> "idle", served |-> 0]
    /\ flights = <<>>

(***************************************************************************)
(* Bounds of the model.                                                    *)
(***************************************************************************)
MaxBudget == 3

MaxAppends == 4

MaxTicks == 4

MaxRuns == 2

MaxRequests == 2

MaxChatTicks == 2

MaxChatDelegations == 1

(***************************************************************************)
(* backend/memory.py                                                       *)
(***************************************************************************)
Roles == {"user", "assistant"}

\* The texts the memory is exercised with.  LongText stands for the long
\* message of tests/test_memory.py; SpecialText is a text the tokenizer
\* refuses (tiktoken raises on a disallowed special token).
LongText == <<"This is a very long message that will force the older ones out.">>

SpecialText == <<"<|endoftext|>">>

Texts == {<<>>, <<"Hi">>, <<"Message 1">>, SpecialText, LongText}

\* tokenizer.encode(text) raises
encode_raises(text) ==
    text = SpecialText \/ text = None

\* len(tokenizer.encode(text)) when encode returns: the token counts that
\* tests/test_memory.py states for its messages, one token per part for
\* any other text, none for the empty text.
encode_len(text) ==
    CASE text = <<"Message 1">> -> 2
      [] text = LongText -> 4
      [] OTHER -> Len(text)

\* _count_tokens with the exception made explicit: whether the call raises,
\* and the value it returns when it does not.  Without the try/except the
\* tokenizer's exception would leave the method.
count_tokens_unguarded(text) ==
    [raises |-> encode_raises(text), value |-> encode_len(text)]

try_count_tokens(text) ==
    IF encode_raises(text)
    THEN [raises |-> FALSE, value |-> 0]
    ELSE [raises |-> FALSE, value |-> encode_len(text)]

_count_tokens(text) ==
    try_count_tokens(text).value

\* sum(self._count_tokens(m["content"]) for m in self.messages)
RECURSIVE buffer_tokens(_)
buffer_tokens(msgs) ==
    IF msgs = <<>> THEN 0
    ELSE _count_tokens(Head(msgs).content) + buffer_tokens(Tail(msgs))

\* Variants of _evict_if_needed with a plausible slip, used to test the
\* properties below: evicting at most once, evicting the second-oldest
\* message, and evicting down to an empty buffer.
_evict_once(msgs, max_tokens) ==
    IF Len(msgs) > 1 /\ ~(buffer_tokens(msgs) <= max_tokens)
    THEN Tail(msgs)
    ELSE msgs

RECURSIVE _evict_second(_, _)
_evict_second(msgs, max_tokens) ==
    IF Len(msgs) > 1 /\ ~(buffer_tokens(msgs) <= max_tokens)
    THEN _evict_second(IF Len(msgs) > 2 THEN <<Head(msgs)>> \o Tail(Tail(msgs))
                       ELSE Tail(msgs), max_tokens)
    ELSE msgs

RECURSIVE _evict_all(_, _)
_evict_all(msgs, max_tokens) ==
    IF Len(msgs) > 0 /\ ~(buffer_tokens(msgs) <= max_tokens)
    THEN _evict_all(Tail(msgs), max_tokens)
    ELSE msgs

\* Eviction with the comparison `<` for `<=`: a buffer that fills the
\* budget exactly loses its oldest message.
RECURSIVE _evict_eager(_, _)
_evict_eager(msgs, max_tokens) ==
    IF Len(msgs) > 1 /\ ~(buffer_tokens(msgs) < max_tokens)
    THEN _evict_eager(Tail(msgs), max_tokens)
    ELSE msgs

RECURSIVE _evict_if_needed(_, _)
_evict_if_needed(msgs, max_tokens) ==
    IF Len(msgs) > 1 /\ ~(buffer_tokens(msgs) <= max_tokens)
    THEN _evict_if_needed(Tail(msgs), max_tokens)
    ELSE msgs

add_message(mem, role, content) ==
    [mem EXCEPT !.messages =
        _evict_if_needed(Append(@, [role |-> role, content |-> content]),
                         mem.max_tokens)]

\* Whether add_message(role, content) raises.  The append raises nothing;
\* the while loop of _evict_if_needed counts the tokens of every buffered
\* message on its first pass, when more than one message is buffered; and
\* its log line takes len() of the content of each message it removes,
\* which only a str (or another sized value) has.
add_message_raises(mem, role, content) ==
    LET msgs == Append(mem.messages, [role |-> role, content |-> content])
        kept == _evict_if_needed(msgs, mem.max_tokens)
    IN  \/ /\ Len(msgs) > 1
           /\ \E i \in 1..Len(msgs) : try_count_tokens(msgs[i].content).raises
        \/ \E i \in 1..(Len(msgs) - Len(kept)) : msgs[i].content = None

get_history(mem) ==
    mem.messages

clear(mem) ==
    [mem EXCEPT !.messages = <<>>]

\* TokenBufferMemory(max_tokens=n)
NewMemory(n) ==
    [max_tokens |-> n, messages |-> <<>>]

NoMemOp ==
    [name |-> "none", role |-> "", content |-> None, was_empty |-> TRUE,
     raised |-> FALSE]

(***************************************************************************)
(* backend/application.py: ProviderStatus, ProviderState, ProviderManager  *)
(***************************************************************************)
ACTIVE == "Active"

DOWN == "Down"

QUOTA_EXHAUSTED == "QuotaExhausted"

ERROR == "Error"

ProviderStatus == {ACTIVE, DOWN, QUOTA_EXHAUSTED, ERROR}

\* 24 * 60 * 60 and 60, the two hold times of update_status
QuotaSeconds == 86400

DownSeconds == 60

\* self.providers is a dict; iteration follows insertion order.
ProviderOrder == <<"groq", "gemini">>

ProviderNames == {ProviderOrder[i] : i \in 1..Len(ProviderOrder)}

\* ProviderManager.__init__
NewProviders ==
    [n \in ProviderNames |-> [name |-> n, status |-> ACTIVE, reset_time |-> 0]]

\* update_status at clock value t
update_status_swapped(provs, provider_name, status, t) ==
    [provs EXCEPT ![provider_name] =
        [@ EXCEPT !.status = status,
                  !.reset_time =
                      IF status = QUOTA_EXHAUSTED THEN t + DownSeconds
                      ELSE IF status = DOWN THEN t + QuotaSeconds
                      ELSE @]]

\* update_status writing the failure into every record.
update_status_all(provs, provider_name, status, t) ==
    [n \in DOMAIN provs |->
        [provs[n] EXCEPT !.status = status,
                         !.reset_time =
                             IF status = QUOTA_EXHAUSTED THEN t + QuotaSeconds
                             ELSE IF status = DOWN THEN t + DownSeconds
                             ELSE @]]

update_status(provs, provider_name, status, t) ==
    [provs EXCEPT ![provider_name] =
        [@ EXCEPT !.status = status,
                  !.reset_time =
                      IF status = QUOTA_EXHAUSTED THEN t + QuotaSeconds
                      ELSE IF status = DOWN THEN t + DownSeconds
                      ELSE @]]

\* get_provider at clock value t, scanning from position i of the dict:
\* the name returned (or NoneId) and the records after the scan.
RECURSIVE scan_ignoring_time(_, _, _)
scan_ignoring_time(provs, i, t) ==
    IF i > Len(ProviderOrder) THEN [name |-> NoneId, providers |-> provs]
    ELSE LET name == ProviderOrder[i]
             state == provs[name]
         IN  IF state.status = ACTIVE
             THEN [name |-> name, providers |-> provs]
             ELSE IF state.status \in {DOWN, QUOTA_EXHAUSTED}
             THEN [name |-> name,
                   providers |-> [provs EXCEPT ![name].status = ACTIVE]]
             ELSE scan_ignoring_time(provs, i + 1, t)

RECURSIVE scan(_, _, _)
scan(provs, i, t) ==
    IF i > Len(ProviderOrder) THEN [name |-> NoneId, providers |-> provs]
    ELSE LET name == ProviderOrder[i]
             state == provs[name]
         IN  IF state.status = ACTIVE
             THEN [name |-> name, providers |-> provs]
             ELSE IF /\ state.status \in {DOWN, QUOTA_EXHAUSTED}
                     /\ t > state.reset_time
             THEN [name |-> name,
                   providers |-> [provs EXCEPT ![name].status = ACTIVE]]
             ELSE scan(provs, i + 1, t)

\* get_provider scanning the declared order from its end.
get_provider_reversed(provs, t) ==
    LET ok(n) == \/ provs[n].status = ACTIVE
                 \/ /\ provs[n].status \in {DOWN, QUOTA_EXHAUSTED}
                    /\ t > provs[n].reset_time
    IN  IF \E i \in 1..Len(ProviderOrder) : ok(ProviderOrder[i])
        THEN LET k == CHOOSE i \in 1..Len(ProviderOrder) :
                          /\ ok(ProviderOrder[i])
                          /\ \A j \in (i + 1)..Len(ProviderOrder) :
                                 ~ok(ProviderOrder[j])
             IN  [name |-> ProviderOrder[k],
                  providers |-> [provs EXCEPT ![ProviderOrder[k]].status = ACTIVE]]
        ELSE [name |-> NoneId, providers |-> provs]

\* get_provider without the time-based recovery: the first Active backend.
get_provider_active_only(provs, t) ==
    IF \E i \in 1..Len(ProviderOrder) : provs[ProviderOrder[i]].status = ACTIVE
    THEN [name |-> ProviderOrder[
                       CHOOSE i \in 1..Len(ProviderOrder) :
                           /\ provs[ProviderOrder[i]].status = ACTIVE
                           /\ \A j \in 1..(i - 1) :
                                  provs[ProviderOrder[j]].status # ACTIVE],
          providers |-> provs]
    ELSE [name |-> NoneId, providers |-> provs]

get_provider(provs, t) ==
    scan(provs, 1, t)

\* is_provider_active at clock value t: the answer and the records after it.
is_provider_active_at_reset(provs, provider_name, t) ==
    IF provider_name \notin DOMAIN provs
    THEN [active |-> FALSE, providers |-> provs]
    ELSE LET state == provs[provider_name]
         IN  IF state.status \in {DOWN, QUOTA_EXHAUSTED}
             THEN IF t >= state.reset_time
                  THEN [active |-> TRUE,
                        providers |-> [provs EXCEPT ![provider_name].status = ACTIVE]]
                  ELSE [active |-> FALSE, providers |-> provs]
             ELSE [active |-> state.status = ACTIVE, providers |-> provs]

is_provider_active(provs, provider_name, t) ==
    IF provider_name \notin DOMAIN provs
    THEN [active |-> FALSE, providers |-> provs]
    ELSE LET state == provs[provider_name]
         IN  IF state.status \in {DOWN, QUOTA_EXHAUSTED}
             THEN IF t > state.reset_time
                  THEN [active |-> TRUE,
                        providers |-> [provs EXCEPT ![provider_name].status = ACTIVE]]
                  ELSE [active |-> FALSE, providers |-> provs]
             ELSE [active |-> state.status = ACTIVE, providers |-> provs]

\* The records a get_provider scan reads: those up to the one it returns,
\* all of them when it returns NoneId.
RECURSIVE IndexOf(_, _)
IndexOf(name, i) ==
    IF i > Len(ProviderOrder) THEN Len(ProviderOrder)
    ELSE IF ProviderOrder[i] = name THEN i
    ELSE IndexOf(name, i + 1)

ScanReads(name) ==
    {ProviderOrder[i] : i \in 1..IndexOf(name, 1)}

NoMarks == [n \in ProviderNames |-> [status |-> NoneId, at |-> 0]]

\* The record of a backend before an operation, NoneId for no such backend.
NoRecord == [name |-> NoneId, status |-> NoneId, reset_time |-> 0]

RecordOf(provs, name) ==
    IF name \in DOMAIN provs THEN provs[name] ELSE NoRecord

NoPmOp ==
    [name |-> "none", arg |-> NoneId, result |-> NoneId, at |-> 0,
     reads |-> {}, was |-> NoRecord]

\* The statuses the request handler passes to update_status.
MarkedStatuses == {DOWN, QUOTA_EXHAUSTED}

\* A name that is no key of self.providers.
UnknownProvider == "openai"

\* How far the clock advances between two operations.
TickSteps == {1, DownSeconds, QuotaSeconds}

InitPM ==
    /\ memory = NewMemory(0)
    /\ appended = <<>>
    /\ memOp = NoMemOp
    /\ providers = NewProviders
    /\ now = 1
    /\ ticks = 0
    /\ marked = NoMarks
    /\ pmOp = NoPmOp
    /\ IdleAgents
    /\ IdleRequest
    /\ env = NoEnv

Tick ==
    /\ ticks < MaxTicks
    /\ \E d \in TickSteps : now' = now + d
    /\ ticks' = ticks + 1
    /\ UNCHANGED <<providers, marked, pmOp>>
    /\ UNCHANGED memVars
    /\ UNCHANGED <<agentVars, rq, env, flights>>

UpdateStatus ==
    /\ \E name \in ProviderNames, status \in MarkedStatuses :
        /\ providers' = update_status(providers, name, status, now)
        /\ marked' = [marked EXCEPT ![name] = [status |-> status, at |-> now]]
        /\ pmOp' = [name |-> "update_status", arg |-> name, result |-> NoneId,
                    at |-> now, reads |-> {}, was |-> providers[name]]
    /\ UNCHANGED <<now, ticks>>
    /\ UNCHANGED memVars
    /\ UNCHANGED <<agentVars, rq, env, flights>>

GetProvider ==
    /\ LET r == get_provider(providers, now)
       IN  /\ providers' = r.providers
           /\ pmOp' = [name |-> "get_provider", arg |-> NoneId, result |-> r.name,
                       at |-> now, reads |-> ScanReads(r.name),
                       was |-> RecordOf(providers, r.name)]
    /\ UNCHANGED <<now, ticks, marked>>
    /\ UNCHANGED memVars
    /\ UNCHANGED <<agentVars, rq, env, flights>>

IsProviderActive ==
    /\ \E name \in ProviderNames \cup {UnknownProvider} :
        LET r == is_provider_active(providers, name, now)
        IN  /\ providers' = r.providers
            /\ pmOp' = [name |-> "is_provider_active", arg |-> name,
                        result |-> IF r.active THEN name ELSE NoneId,
                        at |-> now, reads |-> {name} \cap ProviderNames,
                        was |-> RecordOf(providers, name)]
    /\ UNCHANGED <<now, ticks, marked>>
    /\ UNCHANGED memVars
    /\ UNCHANGED <<agentVars, rq, env, flights>>

NextPM ==
    \/ Tick
    \/ UpdateStatus
    \/ GetProvider
    \/ IsProviderActive

SpecPM == InitPM /\ [][NextPM]_vars

(***************************************************************************)
(* backend/llm_provider.py: LLMResponse and the failures of get_response   *)
(***************************************************************************)
\* tool_call=None
NoToolCall == [none |-> TRUE]

\* LLMResponse(content=..., tool_call=...) returned by provider.get_response
LLMResponse(content, tool_call) ==
    [raises |-> NoneId, content |-> content, tool_call |-> tool_call]

\* provider.get_response(...) raising an exception of class cls
Raises(cls) ==
    [raises |-> cls, content |-> None, tool_call |-> NoToolCall]

\* {"name": ..., "args": ..., "id": ...}, as GroqProvider builds it, and
\* {"name": ..., "args": ...}, as GeminiProvider builds it
ToolCall(name, args, id) == [name |-> name, args |-> args, id |-> id]

ToolCallNoId(name, args) == [name |-> name, args |-> args]

\* Python truthiness of an Optional[str]
Truthy(text) ==
    text # None /\ text # <<>>

(***************************************************************************)
(* backend/base_agent.py: AgentResponse, SingleAgent                       *)
(***************************************************************************)
EmptyDict == [empty |-> TRUE]

AgentResponse(content, metadata) ==
    [content |-> content, metadata |-> metadata]

NoResult == AgentResponse(None, EmptyDict)

\* for turn in range(5), in SingleAgent.process_query
MaxTurns == 5

\* dict.get(key, default) on a tool call or on its arguments
GetId(tool_call, default) ==
    IF "id" \in DOMAIN tool_call THEN tool_call.id ELSE default

GetQuery(tool_args) ==
    IF "query" \in DOMAIN tool_args THEN tool_args.query ELSE None

\* json.dumps of a tool's arguments (kept symbolic: it is only stored) and
\* of a tool's non-text result (a dict with the single key "result")
json_dumps_args(tool_args) == [json |-> tool_args]

json_dumps(raw_result) ==
    <<"{\"result\": ">> \o raw_result \o <<"}">>

\* The records a loop appends to its conversation.
AssistantCall(tool_id, tool_name, tool_args) ==
    [role |-> "assistant", content |-> None,
     tool_calls |-> <<[id |-> tool_id, type |-> "function",
                       function |-> [name |-> tool_name,
                                     arguments |-> json_dumps_args(tool_args)]]>>]

ToolRecord(tool_id, tool_name, content) ==
    [role |-> "tool", tool_call_id |-> tool_id, name |-> tool_name,
     content |-> content]

\* What running a registered tool does: it returns a str, returns another
\* value, or raises.  NoOutcome stands where no tool runs.
Returned(is_str, value) == [kind |-> "return", is_str |-> is_str, value |-> value]

Raised(message) == [kind |-> "raise", is_str |-> TRUE, value |-> message]

NoOutcome == [kind |-> "none", is_str |-> TRUE, value |-> <<>>]

\* The content of the tool-result record, lines 75-87
tool_result_content_unserialized(outcome) ==
    IF outcome.kind = "raise"
    THEN <<"Tool Execution Failed: ">> \o outcome.value
    ELSE outcome.value

tool_result_content(outcome) ==
    IF outcome.kind = "raise"
    THEN <<"Tool Execution Failed: ">> \o outcome.value
    ELSE IF ~outcome.is_str THEN json_dumps(outcome.value)
    ELSE outcome.value

\* The character U+274C that opens the unknown-tool text (line 90)
CrossMark == "U+274C"

\* SingleAgent(name, tools, system_prompt): tool_registry holds the names
SingleAgent(name, tool_names, system_prompt) ==
    [name |-> name, system_prompt |-> system_prompt, tool_registry |-> tool_names]

\* One turn of SingleAgent.process_query after the backend has answered:
\* the conversation after the turn, and the AgentResponse if the turn returns.
single_turn(agent, messages, response, outcome) ==
    IF response.tool_call # NoToolCall
    THEN LET tool_name == response.tool_call.name
             tool_args == response.tool_call.args
             tool_id == GetId(response.tool_call, "call_default")
         IN  IF tool_name \in agent.tool_registry
             THEN [final |-> FALSE, result |-> NoResult,
                   messages |-> messages \o
                       <<AssistantCall(tool_id, tool_name, tool_args),
                         ToolRecord(tool_id, tool_name,
                                    tool_result_content(outcome))>>]
             ELSE [final |-> FALSE, result |-> NoResult,
                   messages |-> Append(messages,
                       ToolRecord(tool_id, tool_name,
                                  <<CrossMark, " Unknown tool '">>
                                      \o tool_name \o <<"'">>))]
    ELSE IF Truthy(response.content)
    THEN [final |-> TRUE,
          result |-> AgentResponse(response.content,
                                   [final_answer |-> response.content]),
          messages |-> messages]
    ELSE [final |-> FALSE, result |-> NoResult, messages |-> messages]

WorkerTimeout == AgentResponse(<<"Agent timed out.">>, [error |-> <<"Timeout">>])

\* SingleAgent.process_query up to its first backend call
worker_start(agent, user_query, provider) ==
    [pc |-> "loop", agent |-> agent, provider |-> provider, turn |-> 0,
     messages |-> <<[role |-> "system", content |-> agent.system_prompt],
                    [role |-> "user", content |-> user_query]>>,
     result |-> NoResult, exc |-> NoneId]

\* One pass of the for loop: the backend call raises (the exception leaves
\* process_query), or the turn is handled and the loop returns, continues,
\* or runs out of turns.
worker_step_unbounded(w, response, outcome) ==
    IF response.raises # NoneId
    THEN [w EXCEPT !.pc = "raised", !.exc = response.raises]
    ELSE LET r == single_turn(w.agent, w.messages, response, outcome)
         IN  IF r.final
             THEN [w EXCEPT !.pc = "done", !.turn = @ + 1, !.result = r.result]
             ELSE IF w.turn + 1 > MaxTurns
             THEN [w EXCEPT !.pc = "done", !.turn = @ + 1,
                            !.messages = r.messages, !.result = WorkerTimeout]
             ELSE [w EXCEPT !.turn = @ + 1, !.messages = r.messages]

\* One pass of the for loop that loses a turn when the response carries
\* neither a tool call nor content.
worker_step_skipping(w, response, outcome) ==
    IF response.raises # NoneId
    THEN [w EXCEPT !.pc = "raised", !.exc = response.raises]
    ELSE LET r == single_turn(w.agent, w.messages, response, outcome)
             used == IF r.messages = w.messages /\ ~r.final THEN 2 ELSE 1
         IN  IF r.final
             THEN [w EXCEPT !.pc = "done", !.turn = @ + 1, !.result = r.result]
             ELSE IF w.turn + used >= MaxTurns
             THEN [w EXCEPT !.pc = "done", !.turn = @ + used,
                            !.messages = r.messages, !.result = WorkerTimeout]
             ELSE [w EXCEPT !.turn = @ + used, !.messages = r.messages]

\* One pass of the for loop without the try around the tool's execution:
\* what the tool raises leaves process_query.
worker_step_unguarded(w, response, outcome) ==
    IF response.raises # NoneId
    THEN [w EXCEPT !.pc = "raised", !.exc = response.raises]
    ELSE IF /\ response.tool_call # NoToolCall
            /\ response.tool_call.name \in w.agent.tool_registry
            /\ outcome.kind = "raise"
    THEN [w EXCEPT !.pc = "raised", !.exc = "Exception",
                   !.messages = Append(@,
                       AssistantCall(GetId(response.tool_call, "call_default"),
                                     response.tool_call.name,
                                     response.tool_call.args))]
    ELSE LET r == single_turn(w.agent, w.messages, response, outcome)
         IN  IF r.final
             THEN [w EXCEPT !.pc = "done", !.turn = @ + 1, !.result = r.result]
             ELSE IF w.turn + 1 >= MaxTurns
             THEN [w EXCEPT !.pc = "done", !.turn = @ + 1,
                            !.messages = r.messages, !.result = WorkerTimeout]
             ELSE [w EXCEPT !.turn = @ + 1, !.messages = r.messages]

worker_step(w, response, outcome) ==
    IF response.raises # NoneId
    THEN [w EXCEPT !.pc = "raised", !.exc = response.raises]
    ELSE LET r == single_turn(w.agent, w.messages, response, outcome)
         IN  IF r.final
             THEN [w EXCEPT !.pc = "done", !.turn = @ + 1, !.result = r.result]
             ELSE IF w.turn + 1 >= MaxTurns
             THEN [w EXCEPT !.pc = "done", !.turn = @ + 1,
                            !.messages = r.messages, !.result = WorkerTimeout]
             ELSE [w EXCEPT !.turn = @ + 1, !.messages = r.messages]

(***************************************************************************)
(* backend/base_agent.py: ManagerAgent                                     *)
(***************************************************************************)
\* for turn in range(5), in ManagerAgent.process_query
ManagerMaxTurns == 5

\* The delegation convention: f"delegate_to_{agent_name}",
\* tool_name.startswith("delegate_to_"), tool_name.replace("delegate_to_", "")
DelegatePrefix == "delegate_to_"

delegate_name(agent_name) ==
    <<DelegatePrefix>> \o agent_name

starts_with_delegate(tool_name) ==
    Len(tool_name) >= 1 /\ tool_name[1] = DelegatePrefix

replace_delegate(tool_name) ==
    SelectSeq(tool_name, LAMBDA part : part # DelegatePrefix)

\* ManagerAgent(name, sub_agents, memory, system_prompt): sub_agents is a
\* dict, modelled as the sequence of its values in insertion order, each
\* agent stored under its own name.
ManagerAgent(name, sub_agents, system_prompt) ==
    [name |-> name, system_prompt |-> system_prompt, sub_agents |-> sub_agents]

SubAgentNames(manager) ==
    {manager.sub_agents[i].name : i \in 1..Len(manager.sub_agents)}

SubAgent(manager, agent_name) ==
    manager.sub_agents[CHOOSE i \in 1..Len(manager.sub_agents) :
                           manager.sub_agents[i].name = agent_name]

\* _build_delegation_definitions: the names of the synthetic capabilities
delegation_definitions(manager) ==
    [i \in 1..Len(manager.sub_agents) |->
        delegate_name(manager.sub_agents[i].name)]

\* ", ".join(self.sub_agents.keys())
RECURSIVE team_roster(_)
team_roster(agents) ==
    IF agents = <<>> THEN <<>>
    ELSE IF Len(agents) = 1 THEN Head(agents).name
    ELSE Head(agents).name \o <<", ">> \o team_roster(Tail(agents))

enhanced_system_prompt(manager) ==
    manager.system_prompt
        \o <<"\nYou manage a team of agents: [">>
        \o team_roster(manager.sub_agents)
        \o <<"].\nDelegate tasks to them using the available tools.\n",
             "Combine their outputs into a comprehensive final answer.",
             "Use the conversation history to answer follow-up questions.">>

NoPending == [tool_id |-> NoneId, tool_name |-> None, agent_name |-> None]

\* A start of process_query that shows the backend the current query only.
manager_start_query_only(manager, user_query, provider, history) ==
    [pc |-> "loop", agent |-> manager, provider |-> provider,
     user_query |-> user_query, turn |-> 0,
     messages |-> <<[role |-> "system",
                     content |-> enhanced_system_prompt(manager)],
                    [role |-> "user", content |-> user_query]>>,
     result |-> NoResult, exc |-> NoneId, pending |-> NoPending]

\* ManagerAgent.process_query up to its first backend call, given the
\* history read after the user query was saved (lines 145-165)
manager_start(manager, user_query, provider, history) ==
    [pc |-> "loop", agent |-> manager, provider |-> provider,
     user_query |-> user_query, turn |-> 0,
     messages |-> <<[role |-> "system",
                     content |-> enhanced_system_prompt(manager)]>> \o history,
     result |-> NoResult, exc |-> NoneId, pending |-> NoPending]

ManagerTimeout ==
    AgentResponse(<<"Manager timed out while coordinating agents.">>,
                  [error |-> <<"timeout">>])

\* A loop pass that takes an unknown delegation target for a response
\* without a tool call.
manager_decision_lenient(manager, response) ==
    LET tc == response.tool_call
    IN  IF tc # NoToolCall /\ starts_with_delegate(tc.name)
           /\ replace_delegate(tc.name) \in SubAgentNames(manager)
        THEN "delegate"
        ELSE IF Truthy(response.content) THEN "final"
        ELSE "nothing"

\* What one loop pass decides once the backend has answered (lines 175-236):
\* delegate to a sub-agent, record an unknown target, return final content,
\* or do nothing.
manager_decision(manager, response) ==
    LET tc == response.tool_call
    IN  IF tc # NoToolCall /\ starts_with_delegate(tc.name)
        THEN IF replace_delegate(tc.name) \in SubAgentNames(manager)
             THEN "delegate"
             ELSE "unknown_agent"
        ELSE IF Truthy(response.content) THEN "final"
        ELSE "nothing"

\* The end of a loop pass, with one more turn allowed.
manager_next_turn_late(m, messages) ==
    IF m.turn + 1 >= ManagerMaxTurns + 1
    THEN [m EXCEPT !.pc = "done", !.turn = @ + 1, !.messages = messages,
                   !.result = ManagerTimeout, !.pending = NoPending]
    ELSE [m EXCEPT !.pc = "loop", !.turn = @ + 1, !.messages = messages,
                   !.pending = NoPending]

\* The end of a loop pass that did not return: the next turn, or the
\* timeout return after the last one (lines 168, 238).
manager_next_turn(m, messages) ==
    IF m.turn + 1 >= ManagerMaxTurns
    THEN [m EXCEPT !.pc = "done", !.turn = @ + 1, !.messages = messages,
                   !.result = ManagerTimeout, !.pending = NoPending]
    ELSE [m EXCEPT !.pc = "loop", !.turn = @ + 1, !.messages = messages,
                   !.pending = NoPending]

\* A loop pass that records a response without delegation and without
\* content as an assistant message before going on.
manager_step_recording(m, response) ==
    IF response.raises # NoneId
    THEN [m EXCEPT !.pc = "raised", !.exc = response.raises]
    ELSE LET tc == response.tool_call
             decision == manager_decision(m.agent, response)
         IN  CASE decision = "delegate" ->
                    LET tool_id == GetId(tc, "call_mgr")
                    IN  [m EXCEPT
                            !.pc = "delegating",
                            !.messages = Append(@,
                                AssistantCall(tool_id, tc.name, tc.args)),
                            !.pending = [tool_id |-> tool_id,
                                         tool_name |-> tc.name,
                                         agent_name |-> replace_delegate(tc.name)]]
               [] decision = "unknown_agent" ->
                    manager_next_turn(m, Append(m.messages,
                        ToolRecord(GetId(tc, "call_mgr"), tc.name,
                                   <<"Error: Agent ">> \o replace_delegate(tc.name)
                                       \o <<" does not exist.">>)))
               [] decision = "final" ->
                    [m EXCEPT !.pc = "done", !.turn = @ + 1,
                              !.result = AgentResponse(response.content, EmptyDict)]
               [] OTHER ->
                    manager_next_turn(m, Append(m.messages,
                        [role |-> "assistant", content |-> response.content]))

\* One loop pass up to the point where it returns, continues, or calls the
\* sub-agent: the manager's locals after it.
manager_step(m, response) ==
    IF response.raises # NoneId
    THEN [m EXCEPT !.pc = "raised", !.exc = response.raises]
    ELSE LET tc == response.tool_call
             decision == manager_decision(m.agent, response)
         IN  CASE decision = "delegate" ->
                    LET tool_id == GetId(tc, "call_mgr")
                    IN  [m EXCEPT
                            !.pc = "delegating",
                            !.messages = Append(@,
                                AssistantCall(tool_id, tc.name, tc.args)),
                            !.pending = [tool_id |-> tool_id,
                                         tool_name |-> tc.name,
                                         agent_name |-> replace_delegate(tc.name)]]
               [] decision = "unknown_agent" ->
                    manager_next_turn(m, Append(m.messages,
                        ToolRecord(GetId(tc, "call_mgr"), tc.name,
                                   <<"Error: Agent ">> \o replace_delegate(tc.name)
                                       \o <<" does not exist.">>)))
               [] decision = "final" ->
                    [m EXCEPT !.pc = "done", !.turn = @ + 1,
                              !.result = AgentResponse(response.content, EmptyDict)]
               [] OTHER -> manager_next_turn(m, m.messages)

\* str(e) of an exception of class cls
exception_text(cls) == <<cls>>

\* worker_content, lines 201-209: the sub-agent's answer, or the text of the
\* exception its process_query raised
worker_content(m, w) ==
    IF w.pc = "raised"
    THEN <<"Error from ">> \o m.pending.agent_name \o <<": ">>
            \o exception_text(w.exc)
    ELSE w.result.content

\* The rest of a delegating loop pass with the sub-agent's exception let
\* through.
manager_resume_propagating(m, w) ==
    IF w.pc = "raised"
    THEN [m EXCEPT !.pc = "raised", !.exc = w.exc, !.pending = NoPending]
    ELSE manager_next_turn(m, Append(m.messages,
            ToolRecord(m.pending.tool_id, m.pending.tool_name,
                       <<"Output from ">> \o m.pending.agent_name \o <<":\n">>
                           \o w.result.content)))

\* The rest of a delegating loop pass that lets the backend's own failures
\* through and absorbs every other exception of the sub-agent.
manager_resume_backend_failure(m, w) ==
    IF w.pc = "raised" /\ w.exc \in {"QuotaExhaustedError", "ProviderDownError"}
    THEN [m EXCEPT !.pc = "raised", !.exc = w.exc, !.pending = NoPending]
    ELSE manager_next_turn(m, Append(m.messages,
            ToolRecord(m.pending.tool_id, m.pending.tool_name,
                       <<"Output from ">> \o m.pending.agent_name \o <<":\n">>
                           \o worker_content(m, w))))

\* The rest of a delegating loop pass, once the sub-agent's process_query
\* has returned or raised (lines 204-218).
manager_resume(m, w) ==
    manager_next_turn(m, Append(m.messages,
        ToolRecord(m.pending.tool_id, m.pending.tool_name,
                   <<"Output from ">> \o m.pending.agent_name \o <<":\n">>
                       \o worker_content(m, w))))

\* The memory after a loop pass: the final content is saved as an assistant
\* entry (line 234); nothing else of the loop writes to the memory.
memory_after_step_unsaved(mem, m, response) ==
    mem

\* A delegation that hands the sub-agent a backend handle of its own.
worker_provider_own(m) ==
    [provider |-> NoneId, api_key |-> NoneId]

\* The backend handle the manager passes to the sub-agent it delegates to:
\* worker_agent.process_query(worker_query, provider), line 203
worker_provider(m) ==
    m.provider

\* The memory after a loop pass that appends its records to the list the
\* memory returned, instead of to a list of its own.
memory_after_step_shared(mem, m, response) ==
    IF response.raises # NoneId
    THEN mem
    ELSE IF manager_decision(m.agent, response) = "final"
    THEN add_message(mem, "assistant", response.content)
    ELSE LET after == manager_step(m, response).messages
         IN  [mem EXCEPT !.messages =
                 @ \o SubSeq(after, Len(m.messages) + 1, Len(after))]

memory_after_step(mem, m, response) ==
    IF response.raises = NoneId /\ manager_decision(m.agent, response) = "final"
    THEN add_message(mem, "assistant", response.content)
    ELSE mem

\* The entry of the call history for one backend call.
CallEntry(by, provider, messages, response, outcome) ==
    [by |-> by, provider |-> provider, messages |-> messages,
     response |-> response, outcome |-> outcome]

(***************************************************************************)
(* The memory alone: add_message and clear in any order, for any budget.   *)
(***************************************************************************)
InitMem ==
    /\ \E n \in 0..MaxBudget : memory = NewMemory(n)
    /\ appended = <<>>
    /\ memOp = NoMemOp
    /\ providers = NewProviders
    /\ now = 1
    /\ ticks = 0
    /\ marked = NoMarks
    /\ pmOp = NoPmOp
    /\ IdleAgents
    /\ IdleRequest
    /\ env = NoEnv

AddMessage ==
    /\ Len(appended) < MaxAppends
    /\ \E role \in Roles, content \in Texts :
        /\ memory' = add_message(memory, role, content)
        /\ appended' = Append(appended, [role |-> role, content |-> content])
        /\ memOp' = [name |-> "add_message", role |-> role, content |-> content,
                     was_empty |-> (memory.messages = <<>>),
                     raised |-> add_message_raises(memory, role, content)]
    /\ UNCHANGED pmVars
    /\ UNCHANGED <<agentVars, rq, env, flights>>

Clear ==
    /\ memory' = clear(memory)
    /\ appended' = <<>>
    /\ memOp' = [NoMemOp EXCEPT !.name = "clear"]
    /\ UNCHANGED pmVars
    /\ UNCHANGED <<agentVars, rq, env, flights>>

NextMem ==
    \/ AddMessage
    \/ Clear

SpecMem == InitMem /\ [][NextMem]_vars

(***************************************************************************)
(* backend/application.py: ChatRequest, ChatResponse, chat_endpoint        *)
(***************************************************************************)
\* ChatRequest(query, provider, api_key); NoneId for an omitted field
ChatRequest(query, provider, api_key) ==
    [query |-> query, provider |-> provider, api_key |-> api_key]

\* ChatResponse(...): the fields not given keep their default None
Success(response, provider_used, agent_used) ==
    [success |-> TRUE, response |-> response, provider_used |-> provider_used,
     agent_used |-> agent_used, error_type |-> NoneId,
     required_provider |-> NoneId, message |-> None]

Failure(error_type, required_provider, message) ==
    [success |-> FALSE, response |-> None, provider_used |-> NoneId,
     agent_used |-> None, error_type |-> error_type,
     required_provider |-> required_provider, message |-> message]

\* chat_endpoint has not returned.
NoChatResponse == Failure(NoneId, NoneId, None)

\* request.provider.lower()
lower(provider) ==
    CASE provider = "Groq" -> "groq"
      [] provider = "GEMINI" -> "gemini"
      [] OTHER -> provider

\* Python truthiness of an Optional[str] holding an identifier or a key
TruthyId(id) ==
    id # NoneId /\ id # ""

\* has_server_key(name), and os.getenv(f"{name.upper()}_API_KEY")
has_server_key(environ, name) ==
    name \in {"groq", "gemini"} /\ TruthyId(environ[name])

getenv_api_key(environ, name) ==
    IF name \in DOMAIN environ THEN environ[name] ELSE NoneId

\* get_provider_instance(name, key): the backend handle
get_provider_instance(name, key) ==
    [provider |-> name, api_key |-> key]

\* CASE 1 up to the try block (lines 138-161): the liveness check of the
\* named backend and the key; response is NoChatResponse when the handler
\* goes on to execute.
manual_route_fallback(provs, environ, request, t) ==
    LET target == lower(request.provider)
        active == is_provider_active(provs, target, t)
        other == get_provider(active.providers, t)
    IN  [providers |-> other.providers,
         current |-> IF active.active THEN target ELSE other.name,
         key |-> IF TruthyId(request.api_key) THEN request.api_key
                 ELSE getenv_api_key(environ, other.name),
         response |-> IF active.active \/ other.name # NoneId
                      THEN NoChatResponse
                      ELSE Failure("provider_down", target, <<"unavailable">>),
         op |-> "is_provider_active", arg |-> target,
         result |-> other.name, reads |-> {target} \cap ProviderNames,
         was |-> RecordOf(provs, target)]

\* CASE 1 with the key resolved before the liveness check.
manual_route_key_first(provs, environ, request, t) ==
    LET target == lower(request.provider)
        active == is_provider_active(provs, target, t)
        final_key == IF TruthyId(request.api_key) THEN request.api_key
                     ELSE IF has_server_key(environ, target)
                     THEN getenv_api_key(environ, target)
                     ELSE NoneId
    IN  [providers |-> active.providers, current |-> target, key |-> final_key,
         response |->
            IF ~TruthyId(final_key)
            THEN Failure("needs_key", target,
                         <<"API Key missing for ", target, ".">>)
            ELSE IF ~active.active
            THEN Failure("provider_down", target,
                         <<"Requested provider '", target,
                           "' is currently unavailable (Down/Quota).">>)
            ELSE NoChatResponse,
         op |-> "is_provider_active", arg |-> target,
         result |-> IF active.active THEN target ELSE NoneId,
         reads |-> {target} \cap ProviderNames,
         was |-> RecordOf(provs, target)]

manual_route(provs, environ, request, t) ==
    LET target == lower(request.provider)
        active == is_provider_active(provs, target, t)
        final_key == IF TruthyId(request.api_key) THEN request.api_key
                     ELSE IF has_server_key(environ, target)
                     THEN getenv_api_key(environ, target)
                     ELSE NoneId
    IN  [providers |-> active.providers, current |-> target, key |-> final_key,
         response |->
            IF ~active.active
            THEN Failure("provider_down", target,
                         <<"Requested provider '", target,
                           "' is currently unavailable (Down/Quota).">>)
            ELSE IF ~TruthyId(final_key)
            THEN Failure("needs_key", target,
                         <<"API Key missing for ", target, ".">>)
            ELSE NoChatResponse,
         op |-> "is_provider_active", arg |-> target,
         result |-> IF active.active THEN target ELSE NoneId,
         reads |-> {target} \cap ProviderNames,
         was |-> RecordOf(provs, target)]

\* CASE 2, one pass of the while loop up to the try block (lines 183-205)
auto_route(provs, environ, t) ==
    LET found == get_provider(provs, t)
        current == found.name
        final_key == IF has_server_key(environ, current)
                     THEN getenv_api_key(environ, current)
                     ELSE NoneId
    IN  [providers |-> found.providers, current |-> current, key |-> final_key,
         response |->
            IF ~TruthyId(current)
            THEN Failure("all_down", NoneId,
                         <<"All providers are currently down or exhausted.">>)
            ELSE IF ~TruthyId(final_key)
            THEN Failure("needs_key", current,
                         <<"Auto-switching to ", current,
                           ", but API Key is missing.">>)
            ELSE NoChatResponse,
         op |-> "get_provider", arg |-> NoneId, result |-> current,
         reads |-> ScanReads(current), was |-> RecordOf(provs, current)]

\* The except clauses: the status the handler records for an exception of
\* class exc raised by process_query, NoneId when it records none
\* (CASE 1, lines 174-179; CASE 2, lines 217-225).
manual_marks(exc) ==
    IF exc \in {"QuotaExhaustedError", "ProviderDownError"}
    THEN QUOTA_EXHAUSTED
    ELSE NoneId

\* The except clauses of CASE 2 with every exception taken for the backend
\* being down.
auto_marks_any_as_down(exc) ==
    CASE exc = "QuotaExhaustedError" -> QUOTA_EXHAUSTED
      [] OTHER -> DOWN

auto_marks(exc) ==
    CASE exc = "QuotaExhaustedError" -> QUOTA_EXHAUSTED
      [] exc = "ProviderDownError" -> DOWN
      [] OTHER -> NoneId

\* Whether the handler goes round again after an exception for which it
\* recorded status: `continue` stands only in the while loop of CASE 2.
retries_in_both_modes(mode, status) ==
    status # NoneId

retries(mode, status) ==
    mode = "auto" /\ status # NoneId

\* The response of an except clause that returns.
manual_failure(exc) ==
    IF manual_marks(exc) # NoneId
    THEN Failure("provider_down", NoneId, exception_text(exc))
    ELSE Failure("server_error", NoneId, exception_text(exc))

auto_failure(exc) ==
    Failure("server_error", NoneId, exception_text(exc))

\* What the client receives.  Every path of chat_endpoint returns a
\* ChatResponse and none raises an HTTPException, so FastAPI answers with
\* status 200 and the response model's fields as the JSON body.
status_code(response) ==
    200

response_json(response) ==
    response

(***************************************************************************)
(* The steps of the two loops, shared by the specifications below.  A      *)
(* process_query is cut at its backend calls: one step runs from one call  *)
(* of provider.get_response to the next one, or to the return.             *)
(***************************************************************************)
\* The backend of tests/test_agents.py: self.mock_provider = MagicMock()
MockProvider == [provider |-> "mock", api_key |-> NoneId]

\* The application's manager (application.py lines 59-65) over one worker.
PriceWorker ==
    SingleAgent(<<"PriceWorker">>, {<<"mock_tool">>},
                <<"You are a helpful assistant.">>)

TheManager ==
    ManagerAgent(<<"Manager">>, <<PriceWorker>>, <<"You are a manager.">>)

\* {"role": "assistant", "content": content}
AssistantMessage(content) ==
    [role |-> "assistant", content |-> content]

\* self.memory.add_message(role, content), with its history
MemoryAdd(role, content) ==
    /\ memory' = add_message(memory, role, content)
    /\ appended' = Append(appended, [role |-> role, content |-> content])
    /\ memOp' = [name |-> "add_message", role |-> role, content |-> content,
                 was_empty |-> (memory.messages = <<>>),
                 raised |-> add_message_raises(memory, role, content)]

\* manager_agent.process_query(user_query, provider) up to the first call
StartManager(user_query, provider) ==
    /\ MemoryAdd("user", user_query)
    /\ mg' = manager_start(TheManager, user_query, provider,
                           get_history(memory'))
    /\ wk' = IdleAgent
    /\ calls' = <<>>
    /\ runs' = runs + 1

\* One backend call of the manager loop and what the loop does with the
\* answer, up to its next backend call, its return, its raise, or the first
\* backend call of the sub-agent it delegates to.
ManagerTurnWith(inputs) ==
    /\ mg.pc = "loop"
    /\ \E response \in inputs :
        LET m == manager_step(mg, response)
            mem == memory_after_step(memory, mg, response)
        IN  /\ mg' = m
            /\ calls' = Append(calls,
                    CallEntry("manager", mg.provider, mg.messages, response,
                              NoOutcome))
            /\ wk' = IF m.pc = "delegating"
                     THEN worker_start(SubAgent(mg.agent, m.pending.agent_name),
                                       GetQuery(response.tool_call.args),
                                       worker_provider(mg))
                     ELSE wk
            /\ IF mem # memory
               THEN /\ memory' = mem
                    /\ appended' = Append(appended,
                            [role |-> "assistant", content |-> response.content])
                    /\ memOp' = [name |-> "add_message", role |-> "assistant",
                                 content |-> response.content,
                                 was_empty |-> (memory.messages = <<>>),
                                 raised |-> add_message_raises(
                                     memory, "assistant", response.content)]
               ELSE UNCHANGED memVars
    /\ UNCHANGED runs

\* One backend call of a worker loop and the rest of its turn.
WorkerTurnWith(inputs) ==
    /\ wk.pc = "loop"
    /\ \E in \in inputs :
        /\ wk' = worker_step(wk, in[1], in[2])
        /\ calls' = Append(calls, CallEntry("worker", wk.provider, wk.messages,
                                         in[1], in[2]))
    /\ UNCHANGED runs

\* The sub-agent's process_query has returned or raised: the manager records
\* the observation and goes on to its next turn.
ManagerResume ==
    /\ mg.pc = "delegating"
    /\ wk.pc \in {"done", "raised"}
    /\ mg' = manager_resume(mg, wk)
    /\ wk' = IdleAgent
    /\ UNCHANGED <<calls, runs>>

(***************************************************************************)
(* The worker loop alone: one SingleAgent.process_query against a backend  *)
(* that answers each call in any of the ways below.                        *)
(***************************************************************************)
\* The agent of tests/test_agents.py
TestWorker ==
    SingleAgent(<<"TestWorker">>, {<<"mock_tool">>}, <<"You are a test bot.">>)

MockArgs == [arg1 |-> <<"test_val">>]

WorkerQueries == {<<"Hi">>, <<"Run tool">>}

\* What the backend answers and, where a registered tool then runs, what
\* the tool does.
WorkerInputs ==
    {<<LLMResponse(<<"Final Answer">>, NoToolCall), NoOutcome>>,
     <<LLMResponse(None, NoToolCall), NoOutcome>>,
     <<LLMResponse(<<>>, NoToolCall), NoOutcome>>,
     <<LLMResponse(None, ToolCall(<<"mock_tool">>, MockArgs, "call_1")),
       Returned(TRUE, <<"Executed with test_val">>)>>,
     <<LLMResponse(None, ToolCall(<<"mock_tool">>, MockArgs, "call_1")),
       Returned(FALSE, <<"100">>)>>,
     <<LLMResponse(None, ToolCall(<<"mock_tool">>, MockArgs, "call_1")),
       Raised(<<"Boom">>)>>,
     <<LLMResponse(None, ToolCallNoId(<<"mock_tool">>, MockArgs)),
       Returned(TRUE, <<"Executed with test_val">>)>>,
     <<LLMResponse(<<"Final Answer">>,
                   ToolCall(<<"mock_tool">>, MockArgs, "call_2")),
       Returned(TRUE, <<"Executed with test_val">>)>>,
     <<LLMResponse(None, ToolCall(<<"ghost_tool">>, MockArgs, "call_3")),
       NoOutcome>>,
     <<Raises("QuotaExhaustedError"), NoOutcome>>,
     <<Raises("ProviderDownError"), NoOutcome>>}

InitWorker ==
    /\ memory = NewMemory(0)
    /\ appended = <<>>
    /\ memOp = NoMemOp
    /\ providers = NewProviders
    /\ now = 1
    /\ ticks = 0
    /\ marked = NoMarks
    /\ pmOp = NoPmOp
    /\ IdleAgents
    /\ IdleRequest
    /\ env = NoEnv

WorkerProcessQuery ==
    /\ wk.pc = "idle"
    /\ \E user_query \in WorkerQueries :
        wk' = worker_start(TestWorker, user_query, MockProvider)
    /\ calls' = <<>>
    /\ UNCHANGED <<mg, rq, runs, env, flights>>
    /\ UNCHANGED <<memVars, pmVars>>

WorkerTurn ==
    /\ WorkerTurnWith(WorkerInputs)
    /\ UNCHANGED <<mg, rq, env, flights>>
    /\ UNCHANGED <<memVars, pmVars>>

NextWorker ==
    \/ WorkerProcessQuery
    \/ WorkerTurn

SpecWorker == InitWorker /\ [][NextWorker]_vars

(***************************************************************************)
(* The manager loop alone: ManagerAgent.process_query, one call after the  *)
(* other on the same memory, for any budget of the memory.                 *)
(***************************************************************************)
ManagerQueries == {<<"Hello">>, LongText}

DelegateArgs == [query |-> <<"What is the price?">>]

\* What the backend answers to the manager.
ManagerInputs ==
    {LLMResponse(<<"Hi">>, NoToolCall),
     LLMResponse(<<"Message 1">>, NoToolCall),
     LLMResponse(None, NoToolCall),
     LLMResponse(None, ToolCall(delegate_name(<<"PriceWorker">>),
                                DelegateArgs, "call_m1")),
     LLMResponse(None, ToolCall(delegate_name(<<"Ghost">>),
                                DelegateArgs, "call_m2")),
     Raises("ProviderDownError")}

\* What the backend answers to a sub-agent the manager delegated to.
DelegatedInputs ==
    {<<LLMResponse(<<"Price is $100">>, NoToolCall), NoOutcome>>,
     <<Raises("ProviderDownError"), NoOutcome>>,
     <<Raises("ValueError"), NoOutcome>>}

InitManager ==
    /\ \E n \in 0..MaxBudget : memory = NewMemory(n)
    /\ appended = <<>>
    /\ memOp = NoMemOp
    /\ providers = NewProviders
    /\ now = 1
    /\ ticks = 0
    /\ marked = NoMarks
    /\ pmOp = NoPmOp
    /\ IdleAgents
    /\ IdleRequest
    /\ env = NoEnv

ManagerProcessQuery ==
    /\ mg.pc \in {"idle", "done", "raised"}
    /\ runs < MaxRuns
    /\ \E user_query \in ManagerQueries :
        StartManager(user_query, MockProvider)
    /\ UNCHANGED <<pmVars, rq, env, flights>>

ManagerTurn ==
    /\ ManagerTurnWith(ManagerInputs)
    /\ UNCHANGED <<pmVars, rq, env, flights>>

DelegatedTurn ==
    /\ mg.pc = "delegating"
    /\ WorkerTurnWith(DelegatedInputs)
    /\ UNCHANGED <<memVars, pmVars, mg, rq, env, flights>>

ManagerResumes ==
    /\ ManagerResume
    /\ UNCHANGED <<memVars, pmVars, rq, env, flights>>

NextManager ==
    \/ ManagerProcessQuery
    \/ ManagerTurn
    \/ DelegatedTurn
    \/ ManagerResumes

SpecManager == InitManager /\ [][NextManager]_vars

(***************************************************************************)
(* The request handler: /chat requests one after the other, each running   *)
(* chat_endpoint over the provider manager, the manager agent and the      *)
(* memory of the application, while the clock advances.                    *)
(***************************************************************************)
ChatRequests ==
    {ChatRequest(<<"Hello">>, NoneId, NoneId),
     ChatRequest(<<"Hello">>, NoneId, "user-key"),
     ChatRequest(<<"Hello">>, "groq", NoneId),
     ChatRequest(<<"Hello">>, "GEMINI", "user-key"),
     ChatRequest(<<"Hello">>, "gemini", NoneId),
     ChatRequest(<<"Hello">>, UnknownProvider, "user-key")}

\* The API keys the server may have in its environment.
Environments ==
    {[groq |-> "server-groq-key", gemini |-> "server-gemini-key"],
     [groq |-> "server-groq-key", gemini |-> NoneId],
     NoEnv}

\* What the backend answers to the manager, and to a sub-agent.
ChatManagerInputs ==
    {LLMResponse(<<"Hi">>, NoToolCall),
     LLMResponse(None, ToolCall(delegate_name(<<"PriceWorker">>),
                                DelegateArgs, "call_m1")),
     Raises("QuotaExhaustedError"),
     Raises("ProviderDownError"),
     Raises("ProviderError"),
     Raises("ValueError")}

ChatDelegatedInputs ==
    {<<Raises("QuotaExhaustedError"), NoOutcome>>,
     <<Raises("ProviderDownError"), NoOutcome>>}

\* agent_memory = TokenBufferMemory(max_tokens=4096)
AppMaxTokens == 4096

InitChat ==
    /\ memory = NewMemory(AppMaxTokens)
    /\ appended = <<>>
    /\ memOp = NoMemOp
    /\ providers = NewProviders
    /\ now = 1
    /\ ticks = 0
    /\ marked = NoMarks
    /\ pmOp = NoPmOp
    /\ IdleAgents
    /\ IdleRequest
    /\ env \in Environments

\* The history entry of one attempt: the backend, the records when it
\* started, and, once process_query has returned or raised, how it ended,
\* when, and the records after the handler's update_status.
Attempt(provider, records) ==
    [provider |-> provider, started |-> records, outcome |-> "running",
     ended_at |-> 0, ended |-> records]

AttemptEnded(attempt, outcome, t, records) ==
    [attempt EXCEPT !.outcome = outcome, !.ended_at = t, !.ended = records]

\* The provider manager's part of a routing step, with its history.
Routed(route) ==
    /\ providers' = route.providers
    /\ pmOp' = [name |-> route.op, arg |-> route.arg, result |-> route.result,
                at |-> now, reads |-> route.reads, was |-> route.was]

\* After routing: the handler returns the routing failure, or builds the
\* backend handle and calls manager_agent.process_query.
Proceed(request, mode, route, served, attempts) ==
    IF route.response # NoChatResponse
    THEN /\ rq' = [pc |-> "done", served |-> served, request |-> request,
                   mode |-> mode, current |-> route.current,
                   llm |-> get_provider_instance(NoneId, NoneId),
                   response |-> route.response, attempts |-> attempts]
         /\ mg' = IdleAgent
         /\ calls' = IF attempts = <<>> THEN <<>> ELSE calls
         /\ UNCHANGED <<memVars, wk, runs>>
    ELSE /\ rq' = [pc |-> "running", served |-> served, request |-> request,
                   mode |-> mode, current |-> route.current,
                   llm |-> get_provider_instance(route.current, route.key),
                   response |-> NoChatResponse,
                   attempts |-> Append(attempts,
                                       Attempt(route.current, route.providers))]
         /\ StartManager(request.query,
                         get_provider_instance(route.current, route.key))

\* POST /chat: chat_endpoint from its entry to its first backend call, or
\* to its return when routing or the key check fails.
ChatEndpoint ==
    /\ rq.pc \in {"idle", "done"}
    /\ rq.served < MaxRequests
    /\ \E request \in ChatRequests :
        IF TruthyId(request.provider)
        THEN LET route == manual_route(providers, env, request, now)
             IN  /\ Routed(route)
                 /\ Proceed(request, "manual", route, rq.served + 1, <<>>)
        ELSE LET route == auto_route(providers, env, now)
             IN  /\ Routed(route)
                 /\ Proceed(request, "auto", route, rq.served + 1, <<>>)
    /\ UNCHANGED <<now, ticks, marked, env, flights>>

\* process_query returned: the success response (lines 166-173, 209-216).
ChatSucceeds ==
    /\ rq.pc = "running"
    /\ mg.pc = "done"
    /\ rq' = [rq EXCEPT
                !.pc = "done",
                !.response = Success(mg.result.content, rq.current,
                                     mg.agent.name),
                !.attempts[Len(rq.attempts)] =
                    AttemptEnded(@, "returned", now, providers)]
    /\ mg' = IdleAgent
    /\ UNCHANGED <<memVars, pmVars, wk, calls, runs, env, flights>>

\* process_query raised: the except clauses.  In CASE 1 the handler returns;
\* in CASE 2 it returns on an unclassified exception and otherwise records
\* the failure and goes round the while loop: routing again, up to the next
\* process_query or to the return.
ChatFails ==
    /\ rq.pc = "running"
    /\ mg.pc = "raised"
    /\ LET status == IF rq.mode = "manual" THEN manual_marks(mg.exc)
                     ELSE auto_marks(mg.exc)
           provs == IF status = NoneId THEN providers
                    ELSE update_status(providers, rq.current, status, now)
           attempts == [rq.attempts EXCEPT ![Len(rq.attempts)] =
                            AttemptEnded(@, mg.exc, now, provs)]
       IN  /\ marked' = IF status = NoneId THEN marked
                        ELSE [marked EXCEPT ![rq.current] =
                                  [status |-> status, at |-> now]]
           /\ IF retries(rq.mode, status)
              THEN LET route == auto_route(provs, env, now)
                   IN  /\ Routed(route)
                       /\ Proceed(rq.request, "auto", route, rq.served, attempts)
              ELSE /\ providers' = provs
                   /\ pmOp' = IF status = NoneId THEN pmOp
                              ELSE [name |-> "update_status", arg |-> rq.current,
                                    result |-> NoneId, at |-> now, reads |-> {},
                                    was |-> providers[rq.current]]
                   /\ rq' = [rq EXCEPT
                               !.pc = "done",
                               !.response = IF rq.mode = "manual"
                                            THEN manual_failure(mg.exc)
                                            ELSE auto_failure(mg.exc),
                               !.attempts = attempts]
                   /\ mg' = IdleAgent
                   /\ UNCHANGED <<memVars, wk, calls, runs>>
    /\ UNCHANGED <<now, ticks, env, flights>>

\* The delegations among the manager's backend calls so far.
Delegations ==
    Cardinality({i \in 1..Len(calls) :
        /\ calls[i].by = "manager"
        /\ calls[i].response.tool_call # NoToolCall})

ChatManagerTurn ==
    /\ rq.pc = "running"
    /\ ManagerTurnWith(IF Delegations < MaxChatDelegations
                       THEN ChatManagerInputs
                       ELSE {r \in ChatManagerInputs : r.tool_call = NoToolCall})
    /\ UNCHANGED <<pmVars, rq, env, flights>>

ChatDelegatedTurn ==
    /\ rq.pc = "running"
    /\ mg.pc = "delegating"
    /\ WorkerTurnWith(ChatDelegatedInputs)
    /\ UNCHANGED <<memVars, pmVars, mg, rq, env, flights>>

ChatManagerResumes ==
    /\ rq.pc = "running"
    /\ ManagerResume
    /\ UNCHANGED <<memVars, pmVars, rq, env, flights>>

\* The clock advances between requests and during an attempt.  The loops
\* never read the clock, so the time an attempt takes is modelled as passing
\* once process_query has returned or raised, before the handler goes on.
ChatTick ==
    /\ rq.pc = "running" => mg.pc \in {"done", "raised"}
    /\ ticks < MaxChatTicks
    /\ Tick

NextChat ==
    \/ ChatEndpoint
    \/ ChatManagerTurn
    \/ ChatDelegatedTurn
    \/ ChatManagerResumes
    \/ ChatSucceeds
    \/ ChatFails
    \/ ChatTick

SpecChat == InitChat /\ [][NextChat]_vars

(***************************************************************************)
(* Concurrent requests.  provider_manager, agent_memory and manager_agent  *)
(* are module globals shared by every invocation of chat_endpoint, and the *)
(* handler takes no lock.  Here several invocations are in flight at once  *)
(* and interleave at their backend calls: a step of one invocation runs    *)
(* from the return (or raise) of provider.get_response to its next call of *)
(* it, or to the handler's return.  Each invocation has its own locals.    *)
(***************************************************************************)
MaxFlights == 2

ConcRequests ==
    {ChatRequest(<<"Hello">>, NoneId, NoneId),
     ChatRequest(<<"Hello">>, "groq", NoneId)}

ConcEnv == [groq |-> "server-groq-key", gemini |-> "server-gemini-key"]

\* What the backend answers to the manager of an invocation.
ConcInputs ==
    {LLMResponse(<<"Hi">>, NoToolCall),
     Raises("QuotaExhaustedError"),
     Raises("ProviderDownError")}

IdleFlight == [pc |-> "idle"]

\* The history entry of one attempt of an invocation: the backend, when the
\* attempt started, and, once it has ended, how, when, and the status the
\* handler recorded for the backend (NoneId for none).
FlightAttempt(provider, t) ==
    [provider |-> provider, started_at |-> t, outcome |-> "running",
     ended_at |-> 0, recorded |-> NoneId]

FlightAttemptEnded(attempt, outcome, t, status) ==
    [attempt EXCEPT !.outcome = outcome, !.ended_at = t, !.recorded = status]

InitConc ==
    /\ memory = NewMemory(AppMaxTokens)
    /\ appended = <<>>
    /\ memOp = NoMemOp
    /\ providers = NewProviders
    /\ now = 1
    /\ ticks = 0
    /\ marked = NoMarks
    /\ pmOp = NoPmOp
    /\ IdleAgents
    /\ rq = [pc |-> "idle", served |-> 0]
    /\ env = ConcEnv
    /\ flights = [i \in 1..MaxFlights |-> IdleFlight]

\* Invocation i after routing: it returns the routing failure, or saves the
\* user query and starts the manager loop, up to its first backend call.
FlightProceeds(i, request, mode, route, attempts) ==
    IF route.response # NoChatResponse
    THEN /\ flights' = [flights EXCEPT ![i] =
                [pc |-> "done", request |-> request, mode |-> mode,
                 current |-> route.current, mg |-> IdleAgent,
                 response |-> route.response, attempts |-> attempts]]
         /\ UNCHANGED memVars
    ELSE /\ MemoryAdd("user", request.query)
         /\ flights' = [flights EXCEPT ![i] =
                [pc |-> "running", request |-> request, mode |-> mode,
                 current |-> route.current,
                 mg |-> manager_start(TheManager, request.query,
                                      get_provider_instance(route.current,
                                                            route.key),
                                      get_history(memory')),
                 response |-> NoChatResponse,
                 attempts |-> Append(attempts,
                                     FlightAttempt(route.current, now))]]

\* A request arrives: chat_endpoint from its entry to its first backend
\* call, or to its return.
FlightArrives(i) ==
    /\ flights[i].pc = "idle"
    /\ \E request \in ConcRequests :
        IF TruthyId(request.provider)
        THEN LET route == manual_route(providers, env, request, now)
             IN  /\ Routed(route)
                 /\ FlightProceeds(i, request, "manual", route, <<>>)
        ELSE LET route == auto_route(providers, env, now)
             IN  /\ Routed(route)
                 /\ FlightProceeds(i, request, "auto", route, <<>>)
    /\ UNCHANGED <<now, ticks, marked, agentVars, rq, env>>

\* The backend answers the pending call of invocation i, and the invocation
\* runs on to its next backend call or to its return: the rest of the
\* manager's loop pass and, when process_query returns or raises, the
\* handler's return or except clause and, in CASE 2, the next pass of the
\* while loop.
FlightBackendAnswers(i) ==
    /\ flights[i].pc = "running"
    /\ \E response \in ConcInputs :
        LET f == flights[i]
            m == manager_step(f.mg, response)
            mem == memory_after_step(memory, f.mg, response)
            status == IF f.mode = "manual" THEN manual_marks(m.exc)
                      ELSE auto_marks(m.exc)
            provs == IF status = NoneId THEN providers
                     ELSE update_status(providers, f.current, status, now)
            ended == [f.attempts EXCEPT ![Len(f.attempts)] =
                         FlightAttemptEnded(
                             @, IF m.pc = "raised" THEN m.exc ELSE "returned",
                             now, IF m.pc = "raised" THEN status ELSE NoneId)]
        IN  CASE m.pc = "done" ->
                    /\ flights' = [flights EXCEPT ![i] =
                           [f EXCEPT !.pc = "done", !.mg = IdleAgent,
                                     !.response = Success(m.result.content,
                                                          f.current,
                                                          f.mg.agent.name),
                                     !.attempts = ended]]
                    /\ IF mem # memory
                       THEN /\ memory' = mem
                            /\ appended' = Append(appended,
                                   AssistantMessage(response.content))
                            /\ memOp' = [name |-> "add_message",
                                         role |-> "assistant",
                                         content |-> response.content,
                                         was_empty |-> (memory.messages = <<>>),
                                         raised |-> add_message_raises(
                                             memory, "assistant",
                                             response.content)]
                       ELSE UNCHANGED memVars
                    /\ UNCHANGED <<providers, marked, pmOp>>
              [] m.pc = "raised" ->
                    /\ marked' = IF status = NoneId THEN marked
                                 ELSE [marked EXCEPT ![f.current] =
                                           [status |-> status, at |-> now]]
                    /\ IF retries(f.mode, status)
                       THEN LET route == auto_route(provs, env, now)
                            IN  /\ Routed(route)
                                /\ FlightProceeds(i, f.request, "auto", route,
                                                  ended)
                       ELSE /\ providers' = provs
                            /\ pmOp' = IF status = NoneId THEN pmOp
                                       ELSE [name |-> "update_status",
                                             arg |-> f.current,
                                             result |-> NoneId, at |-> now,
                                             reads |-> {},
                                             was |-> providers[f.current]]
                            /\ flights' = [flights EXCEPT ![i] =
                                   [f EXCEPT !.pc = "done", !.mg = IdleAgent,
                                             !.response =
                                                 IF f.mode = "manual"
                                                 THEN manual_failure(m.exc)
                                                 ELSE auto_failure(m.exc),
                                             !.attempts = ended]]
                            /\ UNCHANGED memVars
              [] OTHER ->
                    /\ flights' = [flights EXCEPT ![i].mg = m]
                    /\ UNCHANGED <<memVars, providers, marked, pmOp>>
    /\ UNCHANGED <<now, ticks, agentVars, rq, env>>

\* The clock advances while invocations are in flight.
ConcTick ==
    /\ ticks < MaxChatTicks
    /\ \E d \in TickSteps : now' = now + d
    /\ ticks' = ticks + 1
    /\ UNCHANGED <<providers, marked, pmOp>>
    /\ UNCHANGED memVars
    /\ UNCHANGED <<agentVars, rq, env, flights>>

NextConc ==
    \/ \E i \in 1..MaxFlights : FlightArrives(i)
    \/ \E i \in 1..MaxFlights : FlightBackendAnswers(i)
    \/ ConcTick

SpecConc == InitConc /\ [][NextConc]_vars

(***************************************************************************)
(* The manager and its sub-agent together: one ManagerAgent.process_query  *)
(* on the application's memory, where the backend may name a capability    *)
(* that does not exist both to the manager and to the sub-agent.           *)
(***************************************************************************)
TeamQuery == <<"Hello">>

TeamManagerInputs ==
    {LLMResponse(<<"Hi">>, NoToolCall),
     LLMResponse(None, ToolCall(delegate_name(<<"PriceWorker">>),
                                DelegateArgs, "call_m1")),
     LLMResponse(None, ToolCall(delegate_name(<<"Ghost">>),
                                DelegateArgs, "call_m2"))}

TeamDelegatedInputs ==
    {<<LLMResponse(<<"Price is $100">>, NoToolCall), NoOutcome>>,
     <<LLMResponse(None, ToolCall(<<"ghost_tool">>, MockArgs, "call_3")),
       NoOutcome>>}

InitTeam ==
    /\ memory = NewMemory(AppMaxTokens)
    /\ appended = <<>>
    /\ memOp = NoMemOp
    /\ providers = NewProviders
    /\ now = 1
    /\ ticks = 0
    /\ marked = NoMarks
    /\ pmOp = NoPmOp
    /\ IdleAgents
    /\ IdleRequest
    /\ env = NoEnv

TeamProcessQuery ==
    /\ mg.pc = "idle"
    /\ StartManager(TeamQuery, MockProvider)
    /\ UNCHANGED <<pmVars, rq, env, flights>>

TeamManagerTurn ==
    /\ ManagerTurnWith(TeamManagerInputs)
    /\ UNCHANGED <<pmVars, rq, env, flights>>

TeamDelegatedTurn ==
    /\ mg.pc = "delegating"
    /\ WorkerTurnWith(TeamDelegatedInputs)
    /\ UNCHANGED <<memVars, pmVars, mg, rq, env, flights>>

TeamManagerResumes ==
    /\ ManagerResume
    /\ UNCHANGED <<memVars, pmVars, rq, env, flights>>

NextTeam ==
    \/ TeamProcessQuery
    \/ TeamManagerTurn
    \/ TeamDelegatedTurn
    \/ TeamManagerResumes

SpecTeam == InitTeam /\ [][NextTeam]_vars

\* The same, with the loops running on whenever they can: every backend
\* call and tool call returns.
SpecTeamLive == SpecTeam /\ WF_vars(NextTeam)

(***************************************************************************)
(* Delegation dispatch: one ManagerAgent.process_query of a manager built  *)
(* over any team of one or two sub-agents, with names that may themselves  *)
(* contain the text of the delegation prefix; the backend names the        *)
(* capabilities the manager offers.                                        *)
(***************************************************************************)
\* Bound of the dispatch specification: the manager turns explored
MaxDispatchTurns == 3

DispatchNames ==
    {<<"PriceWorker">>, <<"News">>, <<DelegatePrefix, "News">>,
     <<"Pre", DelegatePrefix, "Fix">>}

\* The sub_agents dicts: distinct keys, each agent under its own name.
DispatchTeams ==
    {<<SingleAgent(n, {<<"mock_tool">>}, <<"You are a helpful assistant.">>)>> :
        n \in DispatchNames}
    \cup
    {<<SingleAgent(n[1], {<<"mock_tool">>}, <<"You are a helpful assistant.">>),
       SingleAgent(n[2], {<<"mock_tool">>}, <<"You are a helpful assistant.">>)>> :
        n \in {p \in DispatchNames \X DispatchNames : p[1] # p[2]}}

DispatchQueries == {<<"What is the price?">>, <<"Any news?">>}

\* What the backend answers to the manager: final content, or a call of one
\* of the capabilities in manager.delegation_definitions.
DispatchInputs(manager) ==
    {LLMResponse(<<"Hi">>, NoToolCall)}
    \cup
    {LLMResponse(None, ToolCall(delegation_definitions(manager)[i],
                                [query |-> q], "call_m1")) :
        i \in 1..Len(manager.sub_agents), q \in DispatchQueries}

DispatchDelegatedInputs ==
    {<<LLMResponse(<<"Price is $100">>, NoToolCall), NoOutcome>>}

InitDispatch ==
    /\ memory = NewMemory(AppMaxTokens)
    /\ appended = <<>>
    /\ memOp = NoMemOp
    /\ providers = NewProviders
    /\ now = 1
    /\ ticks = 0
    /\ marked = NoMarks
    /\ pmOp = NoPmOp
    /\ IdleAgents
    /\ IdleRequest
    /\ env = NoEnv

\* ManagerAgent(name, sub_agents, memory) and its process_query up to the
\* first backend call.
DispatchProcessQuery ==
    /\ mg.pc = "idle"
    /\ \E team \in DispatchTeams :
        /\ MemoryAdd("user", TeamQuery)
        /\ mg' = manager_start(
                    ManagerAgent(<<"Manager">>, team, <<"You are a manager.">>),
                    TeamQuery, MockProvider, get_history(memory'))
    /\ wk' = IdleAgent
    /\ calls' = <<>>
    /\ runs' = runs + 1
    /\ UNCHANGED <<pmVars, rq, env, flights>>

DispatchManagerTurn ==
    /\ mg.pc = "loop"
    /\ mg.turn < MaxDispatchTurns
    /\ ManagerTurnWith(DispatchInputs(mg.agent))
    /\ UNCHANGED <<pmVars, rq, env, flights>>

DispatchDelegatedTurn ==
    /\ mg.pc = "delegating"
    /\ WorkerTurnWith(DispatchDelegatedInputs)
    /\ UNCHANGED <<memVars, pmVars, mg, rq, env, flights>>

DispatchManagerResumes ==
    /\ ManagerResume
    /\ UNCHANGED <<memVars, pmVars, rq, env, flights>>

NextDispatch ==
    \/ DispatchProcessQuery
    \/ DispatchManagerTurn
    \/ DispatchDelegatedTurn
    \/ DispatchManagerResumes

SpecDispatch == InitDispatch /\ [][NextDispatch]_vars

(***************************************************************************)
(* Responses that say nothing: one ManagerAgent.process_query in which the *)
(* backend may answer the manager and the sub-agent without a capability   *)
(* call and without content, and the manager with a call of a capability   *)
(* that is no delegation.                                                  *)
(***************************************************************************)
BlankManagerInputs ==
    {LLMResponse(<<"Hi">>, NoToolCall),
     LLMResponse(None, NoToolCall),
     LLMResponse(None, ToolCall(<<"mock_tool">>, MockArgs, "call_m3")),
     LLMResponse(None, ToolCall(delegate_name(<<"PriceWorker">>),
                                DelegateArgs, "call_m1"))}

BlankDelegatedInputs ==
    {<<LLMResponse(<<"Price is $100">>, NoToolCall), NoOutcome>>,
     <<LLMResponse(<<>>, NoToolCall), NoOutcome>>}

InitBlank ==
    /\ memory = NewMemory(AppMaxTokens)
    /\ appended = <<>>
    /\ memOp = NoMemOp
    /\ providers = NewProviders
    /\ now = 1
    /\ ticks = 0
    /\ marked = NoMarks
    /\ pmOp = NoPmOp
    /\ IdleAgents
    /\ IdleRequest
    /\ env = NoEnv

BlankProcessQuery ==
    /\ mg.pc = "idle"
    /\ StartManager(TeamQuery, MockProvider)
    /\ UNCHANGED <<pmVars, rq, env, flights>>

BlankManagerTurn ==
    /\ ManagerTurnWith(BlankManagerInputs)
    /\ UNCHANGED <<pmVars, rq, env, flights>>

BlankDelegatedTurn ==
    /\ mg.pc = "delegating"
    /\ WorkerTurnWith(BlankDelegatedInputs)
    /\ UNCHANGED <<memVars, pmVars, mg, rq, env, flights>>

BlankManagerResumes ==
    /\ ManagerResume
    /\ UNCHANGED <<memVars, pmVars, rq, env, flights>>

NextBlank ==
    \/ BlankProcessQuery
    \/ BlankManagerTurn
    \/ BlankDelegatedTurn
    \/ BlankManagerResumes

SpecBlank == InitBlank /\ [][NextBlank]_vars

(***************************************************************************)
(* Properties of the memory, checked under SpecMem.                        *)
(***************************************************************************)
Last(seq) == seq[Len(seq)]

IsSuffix(s, t) ==
    /\ Len(s) <= Len(t)
    /\ s = SubSeq(t, Len(t) - Len(s) + 1, Len(t))

\* C1: after every add_message, in any sequence of add_message and clear and
\* for any budget, the token counts of the retained messages sum to at most
\* max_tokens, or exactly one message is retained.
C1_BudgetOrSingle ==
    memOp.name = "add_message" =>
        \/ buffer_tokens(get_history(memory)) <= memory.max_tokens
        \/ Len(get_history(memory)) = 1

\* An add_message that evicted and left two or more messages within budget.
C1_Witness ==
    /\ memOp.name = "add_message"
    /\ Len(get_history(memory)) >= 2
    /\ Len(get_history(memory)) < Len(appended)
    /\ buffer_tokens(appended) > memory.max_tokens

\* C2: the retained history is always a contiguous suffix of the messages
\* appended since the last clear, each message with its role and content
\* unchanged.
C2_FifoSuffix ==
    IsSuffix(get_history(memory), appended)

\* Two or more messages have been evicted and two or more are retained.
C2_Witness ==
    /\ Len(appended) - Len(get_history(memory)) >= 2
    /\ Len(get_history(memory)) >= 2

\* C3: right after add_message(role, content) the last element of the history
\* is that message, also when it alone exceeds the budget; an add to an empty
\* buffer leaves a history of length 1.
C3_NewestKept ==
    memOp.name = "add_message" =>
        /\ Len(get_history(memory)) >= 1
        /\ Last(get_history(memory)) =
                [role |-> memOp.role, content |-> memOp.content]
        /\ memOp.was_empty => Len(get_history(memory)) = 1

\* A message that alone exceeds the budget was added to an empty buffer.
C3_Witness ==
    /\ memOp.name = "add_message"
    /\ memOp.was_empty
    /\ _count_tokens(memOp.content) > memory.max_tokens
    /\ Len(get_history(memory)) = 1

C4_CircuitBreakerTiming ==
    \A p \in pmOp.reads :
        /\ marked[p].status = DOWN =>
            IF pmOp.at <= marked[p].at + DownSeconds
            THEN providers[p].status # ACTIVE /\ pmOp.result # p
            ELSE providers[p].status = ACTIVE /\ pmOp.result = p
        /\ marked[p].status = QUOTA_EXHAUSTED =>
            IF pmOp.at <= marked[p].at + QuotaSeconds
            THEN providers[p].status # ACTIVE /\ pmOp.result # p
            ELSE providers[p].status = ACTIVE /\ pmOp.result = p

\* A scan passes over a backend marked QuotaExhausted exactly 60 s + 1 s
\* earlier and recovers the next one, marked Down at the same time; before
\* that a liveness check at exactly T + 60 had refused it.
C4_Witness ==
    /\ pmOp.name = "get_provider"
    /\ pmOp.reads = {"groq", "gemini"}
    /\ marked["groq"].status = QUOTA_EXHAUSTED
    /\ marked["gemini"].status = DOWN
    /\ pmOp.at = marked["gemini"].at + DownSeconds + 1
    /\ pmOp.at <= marked["groq"].at + QuotaSeconds
    /\ pmOp.result = "gemini"

\* C5: get_provider never returns a backend whose record was Down or
\* QuotaExhausted with a reset_time not yet elapsed (now <= reset_time).
C5_RoutingSkipsUnexpired ==
    (pmOp.name = "get_provider" /\ pmOp.result # NoneId) =>
        ~(/\ pmOp.was.status \in {DOWN, QUOTA_EXHAUSTED}
          /\ pmOp.at <= pmOp.was.reset_time)

\* A scan at the reset time of the first backend skips it and returns the
\* second, whose own reset time has elapsed.
C5_Witness ==
    /\ pmOp.name = "get_provider"
    /\ pmOp.result = "gemini"
    /\ providers["groq"].status = DOWN
    /\ pmOp.at = providers["groq"].reset_time
    /\ pmOp.was.status = DOWN
    /\ pmOp.at > pmOp.was.reset_time

\* The backend is Active, or Down or QuotaExhausted past its reset_time, in
\* the current records at the current time.
Available(n) ==
    \/ providers[n].status = ACTIVE
    \/ /\ providers[n].status \in {DOWN, QUOTA_EXHAUSTED}
       /\ now > providers[n].reset_time

\* C24: get_provider returns the first backend, in the declared order groq
\* then gemini, that is Active or whose reset_time has elapsed, and leaves
\* it Active; it returns None exactly when there is no such backend; the
\* records of the backends before the returned one stay as they were,
\* non-Active, and the records after it, and every record when it returns
\* None, are not modified.
C24_RoutingOrder ==
    [][(pmOp'.name = "get_provider" /\ pmOp' # pmOp) =>
        LET r == pmOp'.result
        IN  /\ ProviderOrder = <<"groq", "gemini">>
            /\ r = NoneId <=> ~\E n \in ProviderNames : Available(n)
            /\ r = NoneId => providers' = providers
            /\ r # NoneId =>
                \E k \in 1..Len(ProviderOrder) :
                    /\ ProviderOrder[k] = r
                    /\ Available(r)
                    /\ providers'[r] = [providers[r] EXCEPT !.status = ACTIVE]
                    /\ \A j \in 1..(k - 1) :
                        /\ ~Available(ProviderOrder[j])
                        /\ providers'[ProviderOrder[j]].status # ACTIVE
                        /\ providers'[ProviderOrder[j]]
                               = providers[ProviderOrder[j]]
                    /\ \A j \in (k + 1)..Len(ProviderOrder) :
                        providers'[ProviderOrder[j]]
                            = providers[ProviderOrder[j]]]_vars

\* A scan passed over groq, whose quota window is open, and returned gemini,
\* which was Down past its reset_time and is Active now.
C24_Witness ==
    /\ pmOp.name = "get_provider"
    /\ pmOp.result = "gemini"
    /\ providers["groq"].status = QUOTA_EXHAUSTED
    /\ pmOp.at <= providers["groq"].reset_time
    /\ pmOp.was.status = DOWN
    /\ pmOp.at > pmOp.was.reset_time
    /\ providers["gemini"].status = ACTIVE

(***************************************************************************)
(* Properties of the worker loop, checked under SpecWorker.                *)
(***************************************************************************)
\* A backend call that returned a tool call; one that returned final content.
IsToolCall(entry) ==
    entry.response.raises = NoneId /\ entry.response.tool_call # NoToolCall

IsFinalContent(entry) ==
    /\ entry.response.raises = NoneId
    /\ entry.response.tool_call = NoToolCall
    /\ Truthy(entry.response.content)

CallsRegisteredTool(entry, agent) ==
    IsToolCall(entry) /\ entry.response.tool_call.name \in agent.tool_registry

AllToolCalls ==
    \A i \in 1..Len(calls) : IsToolCall(calls[i])

\* C8: the worker never makes a 6th backend call; while the backend answers
\* every turn with a tool call (registered or not) the loop keeps running
\* until the 5th call, and after the 5th it has returned the fixed timeout
\* AgentResponse "Agent timed out.".
C8_WorkerTurnBound ==
    /\ Len(calls) <= 5
    /\ (wk.pc # "idle" /\ AllToolCalls) =>
        /\ Len(calls) < 5 => wk.pc = "loop"
        /\ Len(calls) = 5 =>
            /\ wk.pc = "done"
            /\ wk.result.content = <<"Agent timed out.">>
            /\ wk.result.metadata = [error |-> <<"Timeout">>]

\* Five tool calls, registered and unregistered ones among them, and the
\* loop has returned.
C8_Witness ==
    /\ wk.pc = "done"
    /\ Len(calls) = 5
    /\ AllToolCalls
    /\ \E i \in 1..5 : CallsRegisteredTool(calls[i], TestWorker)
    /\ \E i \in 1..5 : ~CallsRegisteredTool(calls[i], TestWorker)

\* The text a tool's result is recorded as: a str as it is, another value
\* as its JSON text.
ExpectedToolText(outcome) ==
    IF outcome.is_str THEN outcome.value
    ELSE <<"{\"result\": ">> \o outcome.value \o <<"}">>

\* C9: when a turn's response calls a registered tool, the conversation of
\* the next backend call is the previous one extended by an assistant record
\* of the call and a tool-result record with the same call id, whose content
\* is the tool's output when the tool returned (a non-text result as JSON
\* text); a backend answering tool call then final content gets exactly 2
\* calls and the final content is returned.
C9_ToolRoundTrip ==
    /\ \A i \in 1..(Len(calls) - 1) :
        CallsRegisteredTool(calls[i], TestWorker) =>
            LET prev == calls[i].messages
                next == calls[i + 1].messages
                tc == calls[i].response.tool_call
            IN  /\ Len(next) = Len(prev) + 2
                /\ SubSeq(next, 1, Len(prev)) = prev
                /\ next[Len(prev) + 1].role = "assistant"
                /\ next[Len(prev) + 1].content = None
                /\ next[Len(prev) + 1].tool_calls[1].function.name = tc.name
                /\ next[Len(prev) + 2].role = "tool"
                /\ next[Len(prev) + 2].name = tc.name
                /\ next[Len(prev) + 2].tool_call_id =
                        next[Len(prev) + 1].tool_calls[1].id
                /\ "id" \in DOMAIN tc => next[Len(prev) + 2].tool_call_id = tc.id
                /\ calls[i].outcome.kind = "return" =>
                        next[Len(prev) + 2].content =
                            ExpectedToolText(calls[i].outcome)
    /\ (/\ Len(calls) >= 2
        /\ CallsRegisteredTool(calls[1], TestWorker)
        /\ IsFinalContent(calls[2])) =>
            /\ Len(calls) = 2
            /\ wk.pc = "done"
            /\ wk.result.content = calls[2].response.content

\* A registered tool returned a non-text value, the next call saw it and
\* answered with final content.
C9_Witness ==
    /\ Len(calls) = 2
    /\ CallsRegisteredTool(calls[1], TestWorker)
    /\ calls[1].outcome.kind = "return"
    /\ ~calls[1].outcome.is_str
    /\ IsFinalContent(calls[2])
    /\ wk.pc = "done"

\* s is t or a beginning of t.
IsPrefix(s, t) ==
    Len(s) <= Len(t) /\ SubSeq(t, 1, Len(s)) = s

\* The worker's process_query has returned final content.
WorkerReturnedFinal ==
    wk.pc = "done" /\ wk.result # WorkerTimeout

\* C27: the worker loop makes exactly one backend call per turn and skips
\* no turn.  The calls made so far are as many as the turns begun; the first
\* call is passed [system prompt, user query] and each later call a
\* conversation that extends the one of the call before; an invocation that
\* returns final content at turn k, 1 <= k <= 5, has made exactly k calls,
\* the k-th answered with that content and none before it with final
\* content; and when the first response is final content there is one call.
C27_OneCallPerTurn ==
    wk.pc # "idle" =>
        /\ Len(calls) = wk.turn + (IF wk.pc = "raised" THEN 1 ELSE 0)
        /\ \A i \in 1..Len(calls) : calls[i].by = "worker"
        /\ calls # <<>> =>
            /\ Len(calls[1].messages) = 2
            /\ calls[1].messages[1] =
                   [role |-> "system", content |-> wk.agent.system_prompt]
            /\ calls[1].messages[2].role = "user"
            /\ calls[1].messages[2].content \in WorkerQueries
        /\ \A i \in 1..(Len(calls) - 1) :
            IsPrefix(calls[i].messages, calls[i + 1].messages)
        /\ WorkerReturnedFinal =>
            /\ wk.turn \in 1..MaxTurns
            /\ Len(calls) = wk.turn
            /\ IsFinalContent(calls[wk.turn])
            /\ wk.result.content = calls[wk.turn].response.content
            /\ \A i \in 1..(wk.turn - 1) : ~IsFinalContent(calls[i])
        /\ (calls # <<>> /\ IsFinalContent(calls[1])) =>
            /\ Len(calls) = 1
            /\ WorkerReturnedFinal

\* Final content at the fifth turn, after a turn whose response was empty
\* and a turn that ran a tool.
C27_Witness ==
    /\ WorkerReturnedFinal
    /\ wk.turn = 5
    /\ Len(calls) = 5
    /\ \E i \in 1..4 : CallsRegisteredTool(calls[i], TestWorker)
    /\ \E i \in 1..4 :
        /\ calls[i].response.tool_call = NoToolCall
        /\ ~Truthy(calls[i].response.content)

(***************************************************************************)
(* Properties of the manager loop, checked under SpecManager.              *)
(***************************************************************************)
\* ManagerAgent.process_query has returned final content (not the timeout).
ReturnedFinal ==
    mg.pc = "done" /\ mg.result.metadata = EmptyDict

UserEntry(text) == [role |-> "user", content |-> text]

AssistantEntry(text) == [role |-> "assistant", content |-> text]

\* C10: when process_query(q) returns final content c, at any turn and after
\* any delegations, the returned content is the backend's c, the user entry q
\* was in the memory at the first backend call, the assistant entry c was
\* appended right after it and is the newest entry, and when the budget
\* holds both the memory ends with user q followed by assistant c.
C10_ManagerPersistsAnswer ==
    ReturnedFinal =>
        LET q == mg.user_query
            c == mg.result.content
        IN  /\ Len(calls) >= 1
            /\ calls[Len(calls)].by = "manager"
            /\ calls[Len(calls)].response.content = c
            /\ Last(calls[1].messages) = UserEntry(q)
            /\ Len(appended) >= 2
            /\ appended[Len(appended) - 1] = UserEntry(q)
            /\ appended[Len(appended)] = AssistantEntry(c)
            /\ Last(get_history(memory)) = AssistantEntry(c)
            /\ _count_tokens(q) + _count_tokens(c) <= memory.max_tokens =>
                /\ Len(get_history(memory)) >= 2
                /\ get_history(memory)[Len(get_history(memory)) - 1] = UserEntry(q)

\* A second request is answered at its third turn or later, after a
\* delegation, and the memory holds the earlier exchange and this one.
C10_Witness ==
    /\ ReturnedFinal
    /\ runs = 2
    /\ Len(calls) >= 3
    /\ \E i \in 1..Len(calls) : calls[i].by = "worker"
    /\ Len(get_history(memory)) >= 3
    /\ get_history(memory)[Len(get_history(memory)) - 1] = UserEntry(mg.user_query)

\* The backend calls the manager loop made itself in this invocation.
ManagerCalls ==
    {i \in 1..Len(calls) : calls[i].by = "manager"}

ReturnedTimeout ==
    mg.pc = "done" /\ mg.result.metadata # EmptyDict

\* C11: when 5 manager turns pass without final content, process_query has
\* made exactly 5 backend calls of its own, none of them answered with final
\* content, it returns the fixed timeout result, and the newest entry of the
\* memory and of everything appended to it is still the user query: no
\* assistant entry was appended.  While an invocation runs, and after it
\* raised, it has appended no assistant entry either; and every assistant
\* entry ever appended directly follows a user entry, so an invocation
\* appends at most one.
C11_ManagerTimeout ==
    /\ ReturnedTimeout =>
        /\ mg.result = ManagerTimeout
        /\ Cardinality(ManagerCalls) = ManagerMaxTurns
        /\ \A i \in ManagerCalls :
               manager_decision(mg.agent, calls[i].response) # "final"
        /\ Last(appended) = UserEntry(mg.user_query)
        /\ Last(get_history(memory)) = UserEntry(mg.user_query)
    /\ mg.pc \in {"loop", "delegating", "raised"} =>
        /\ Cardinality(ManagerCalls) <= ManagerMaxTurns
        /\ Last(appended) = UserEntry(mg.user_query)
    /\ \A i \in 1..Len(appended) :
        appended[i].role = "assistant" =>
            /\ i > 1
            /\ appended[i - 1].role = "user"

\* A second invocation times out after a delegation and an unknown target,
\* the first one having saved its answer.
C11_Witness ==
    /\ ReturnedTimeout
    /\ runs = 2
    /\ Len(appended) = 3
    /\ appended[2].role = "assistant"
    /\ \E i \in 1..Len(calls) : calls[i].by = "worker"
    /\ \E i \in ManagerCalls :
           manager_decision(mg.agent, calls[i].response) = "unknown_agent"

\* The manager's latest backend call: the one that delegated.
LastManagerCall ==
    calls[CHOOSE i \in ManagerCalls : \A j \in ManagerCalls : j <= i]

\* The tool-result record the manager keeps for a sub-agent that raised an
\* exception of class exc, for the delegating call tc to the agent named
\* agent_name.
ErrorObservation(tc, agent_name, exc) ==
    [role |-> "tool", tool_call_id |-> tc.id, name |-> tc.name,
     content |-> <<"Output from ">> \o agent_name \o <<":\n", "Error from ">>
                    \o agent_name \o <<": ", exc>>]

\* C12: when the manager has delegated to a registered sub-agent and the
\* sub-agent's process_query raised, of whatever class the exception, the
\* manager's next step appends to its messages the tool-result record for
\* the delegating call's id that describes the error, raises nothing, and
\* goes on to its next turn, or returns the timeout result when the
\* delegating turn was the fifth; the memory is untouched.
C12_DelegationFailureAbsorbed ==
    [][(mg.pc = "delegating" /\ wk.pc = "raised" /\ mg' # mg) =>
        LET tc == LastManagerCall.response.tool_call
        IN  /\ replace_delegate(tc.name) \in SubAgentNames(mg.agent)
            /\ mg'.messages =
                   Append(mg.messages,
                          ErrorObservation(tc, replace_delegate(tc.name),
                                           wk.exc))
            /\ mg'.exc = NoneId
            /\ mg'.turn = mg.turn + 1
            /\ IF mg.turn + 1 < ManagerMaxTurns
               THEN mg'.pc = "loop"
               ELSE mg'.pc = "done" /\ mg'.result = ManagerTimeout
            /\ memory' = memory
            /\ calls' = calls]_vars

\* The manager is at its next turn after a sub-agent raised a failure that
\* is not a backend failure, and the record of it is its newest message.
C12_Witness ==
    /\ mg.pc = "loop"
    /\ mg.turn >= 1
    /\ calls # <<>>
    /\ Last(calls).by = "worker"
    /\ Last(calls).response.raises = "ValueError"
    /\ Last(mg.messages) =
           ErrorObservation(LastManagerCall.response.tool_call,
                            <<"PriceWorker">>, "ValueError")


(***************************************************************************)
(* Properties of chat_endpoint.                                            *)
(***************************************************************************)

\* A backend the scan of get_provider accepts at time t under records.
Candidate(records, t, n) ==
    records[n].status = ACTIVE \/ t > records[n].reset_time

\* Some backend is a candidate at time t under records.
SomeCandidate(records, t) ==
    \E n \in ProviderNames : Candidate(records, t, n)

\* b is the first candidate in the scan order.
FirstCandidate(records, t, b) ==
    /\ Candidate(records, t, b)
    /\ \A j, k \in 1..Len(ProviderOrder) :
        (ProviderOrder[k] = b /\ j < k)
            => ~Candidate(records, t, ProviderOrder[j])

\* C6: in automatic mode, when the attempt on the chosen backend A fails
\* with QuotaExhaustedError (ProviderDownError), A's record becomes
\* QuotaExhausted with reset_time = failure time + 24 h (Down with
\* reset_time = failure time + 60 s) and no other record changes; the next
\* attempt is made on the first candidate B in the scan order, which is not
\* A and whose record is Active when the attempt starts; without a next
\* attempt the request has ended with all_down when no candidate is left
\* and with needs_key for the first candidate otherwise; and when an
\* attempt returns, the response is a success with provider_used = that
\* attempt's backend and agent_used = the manager's name.
C6_AutoFailover ==
    (rq.pc # "idle" /\ rq.mode = "auto") =>
        \A i \in 1..Len(rq.attempts) :
            LET a == rq.attempts[i]
                A == a.provider
            IN  /\ a.outcome = "QuotaExhaustedError" =>
                       a.ended[A] = [name |-> A, status |-> QUOTA_EXHAUSTED,
                                     reset_time |-> a.ended_at + QuotaSeconds]
                /\ a.outcome = "ProviderDownError" =>
                       a.ended[A] = [name |-> A, status |-> DOWN,
                                     reset_time |-> a.ended_at + DownSeconds]
                /\ a.outcome \in {"QuotaExhaustedError", "ProviderDownError"} =>
                       /\ \A n \in ProviderNames \ {A} :
                              a.ended[n] = a.started[n]
                       /\ IF i < Len(rq.attempts)
                          THEN LET b == rq.attempts[i + 1]
                               IN  /\ b.provider # A
                                   /\ FirstCandidate(a.ended, a.ended_at,
                                                     b.provider)
                                   /\ b.started[b.provider].status = ACTIVE
                          ELSE /\ rq.pc = "done"
                               /\ ~rq.response.success
                               /\ IF SomeCandidate(a.ended, a.ended_at)
                                  THEN /\ rq.response.error_type = "needs_key"
                                       /\ FirstCandidate(
                                              a.ended, a.ended_at,
                                              rq.response.required_provider)
                                  ELSE rq.response.error_type = "all_down"
                /\ a.outcome = "returned" =>
                       /\ i = Len(rq.attempts)
                       /\ rq.pc = "done"
                       /\ rq.response.success
                       /\ rq.response.provider_used = A
                       /\ rq.response.agent_used = TheManager.name

\* An automatic request that failed over twice and then succeeded: groq
\* went Down, gemini ran out of quota after groq's minute had passed, and
\* groq answered.
C6_Witness ==
    /\ rq.pc = "done"
    /\ rq.mode = "auto"
    /\ Len(rq.attempts) = 3
    /\ rq.attempts[1].provider = "groq"
    /\ rq.attempts[1].outcome = "ProviderDownError"
    /\ rq.attempts[2].provider = "gemini"
    /\ rq.attempts[2].outcome = "QuotaExhaustedError"
    /\ rq.attempts[3].provider = "groq"
    /\ rq.attempts[3].outcome = "returned"
    /\ rq.response.success
    /\ rq.response.provider_used = "groq"
    /\ providers["gemini"].status = QUOTA_EXHAUSTED

\* The backend a preference request names is refused by the liveness check
\* in the current state: it is not configured, or it is not Active and its
\* reset_time has not passed.
Refused(target) ==
    \/ target \notin ProviderNames
    \/ /\ target \in ProviderNames
       /\ providers[target].status # ACTIVE
       /\ ~(now > providers[target].reset_time)

\* C7: a preference-mode request naming a backend that is not Active after
\* time-based recovery (Down or QuotaExhausted with unexpired reset_time, or
\* a name that is not configured) returns a provider_down failure naming
\* that backend, with no attempt, no backend call, no run of the manager
\* loop, and no change to the health records or to the memory.
C7_PreferenceRefusal ==
    [][(/\ rq.pc \in {"idle", "done"}
        /\ rq'.pc # "idle"
        /\ rq'.served = rq.served + 1
        /\ rq'.mode = "manual"
        /\ Refused(lower(rq'.request.provider)))
       => (/\ rq'.pc = "done"
           /\ ~rq'.response.success
           /\ rq'.response.error_type = "provider_down"
           /\ rq'.response.required_provider = lower(rq'.request.provider)
           /\ rq'.response.provider_used = NoneId
           /\ rq'.attempts = <<>>
           /\ calls' = <<>>
           /\ runs' = runs
           /\ mg' = IdleAgent
           /\ wk' = wk
           /\ providers' = providers
           /\ marked' = marked
           /\ memory' = memory
           /\ appended' = appended)]_vars

\* A preference request for a backend whose quota window is open, refused,
\* while the other backend is Active.
C7_Witness ==
    /\ rq.pc = "done"
    /\ rq.mode = "manual"
    /\ lower(rq.request.provider) \in ProviderNames
    /\ providers[lower(rq.request.provider)].status = QUOTA_EXHAUSTED
    /\ now <= providers[lower(rq.request.provider)].reset_time
    /\ \E n \in ProviderNames : providers[n].status = ACTIVE
    /\ rq.response.error_type = "provider_down"
    /\ rq.response.required_provider = lower(rq.request.provider)
    /\ rq.attempts = <<>>
    /\ runs > 0

\* A configured backend is Active, or is Down or QuotaExhausted and past its
\* reset_time, under records at time t.
Eligible(records, t) ==
    \E n \in ProviderNames :
        \/ records[n].status = ACTIVE
        \/ /\ records[n].status \in {DOWN, QUOTA_EXHAUSTED}
           /\ t > records[n].reset_time

\* The step is the first routing scan of a new automatic request.
NewAutoRequest ==
    /\ rq.pc \in {"idle", "done"}
    /\ rq'.pc # "idle"
    /\ rq'.served = rq.served + 1
    /\ rq'.mode = "auto"

\* The step records a classified failure of an automatic attempt and scans
\* again.
AutoRetry ==
    /\ rq.pc = "running"
    /\ rq.mode = "auto"
    /\ mg.pc = "raised"
    /\ rq' # rq
    /\ rq'.attempts[Len(rq.attempts)].outcome
           \in {"QuotaExhaustedError", "ProviderDownError"}

\* The records a routing scan of the step reads: the current ones for a new
\* request, the ones after the failure was recorded for a retry.
Scanned ==
    IF rq.pc = "running" THEN rq'.attempts[Len(rq.attempts)].ended
    ELSE providers

\* C13: a routing scan of automatic mode ends the request with all_down
\* exactly when no configured backend is Active or past its reset_time in
\* the records it reads, and no other step of the handler reports all_down.
C13_AllDownIffNoCandidate ==
    [][/\ (NewAutoRequest \/ AutoRetry) =>
              ((rq'.pc = "done" /\ rq'.response.error_type = "all_down")
                   <=> ~Eligible(Scanned, now))
       /\ (/\ rq' # rq
           /\ rq'.pc = "done"
           /\ rq'.response.error_type = "all_down") =>
              (NewAutoRequest \/ AutoRetry)]_vars

\* An automatic request lost both backends, one to quota and one as down,
\* and was answered all_down.
C13_Witness ==
    /\ rq.pc = "done"
    /\ rq.mode = "auto"
    /\ rq.response.error_type = "all_down"
    /\ Len(rq.attempts) = 2
    /\ rq.attempts[1].outcome = "QuotaExhaustedError"
    /\ rq.attempts[2].outcome = "ProviderDownError"
    /\ \A n \in ProviderNames : providers[n].status # ACTIVE

\* What an attempt that starts at time t finds: the backend routing chose
\* and, for each configured backend, its status and the time left until its
\* reset_time.  The handler reads nothing else of the health records.
Situation(attempt, t) ==
    [provider |-> attempt.provider,
     records |-> [n \in ProviderNames |->
        [status |-> attempt.started[n].status,
         remaining |-> IF attempt.started[n].reset_time > t
                       THEN attempt.started[n].reset_time - t
                       ELSE 0]]]

\* C14: every automatic request returns after finitely many attempts,
\* whatever the backends answer and however the clock advances.  Stated so
\* that a finite run refutes it: no attempt of a request starts in the
\* situation in which an earlier attempt of the same request started.  Were
\* an attempt to start where an earlier one did, the backend failures and
\* clock advances that led from the one to the other lead to it again, and
\* the while loop goes round forever.  (An attempt after the first starts
\* when the one before it ended.)
C14_AutoRetryTerminates ==
    (rq.pc # "idle" /\ rq.mode = "auto") =>
        \A i, j \in 2..Len(rq.attempts) :
            i < j =>
                Situation(rq.attempts[i], rq.attempts[i - 1].ended_at)
                    # Situation(rq.attempts[j], rq.attempts[j - 1].ended_at)

\* C15: in automatic mode an attempt that fails with a ProviderError that
\* is neither QuotaExhaustedError nor ProviderDownError marks the chosen
\* backend Down with reset_time = failure time + 60 s, and the request goes
\* on to the next scan instead of ending with the failure.
C15_GenericErrorMarksDown ==
    (rq.pc # "idle" /\ rq.mode = "auto") =>
        \A i \in 1..Len(rq.attempts) :
            LET a == rq.attempts[i]
            IN  a.outcome = "ProviderError" =>
                    /\ a.ended[a.provider] =
                           [name |-> a.provider, status |-> DOWN,
                            reset_time |-> a.ended_at + DownSeconds]
                    /\ ~(/\ i = Len(rq.attempts)
                         /\ rq.pc = "done"
                         /\ rq.response.error_type = "server_error")

\* C16: whenever the request supplies a credential, in preference mode and
\* in automatic mode alike, the backend handle of every attempt is built
\* with that credential and not with the server's, and the request does not
\* fail with needs_key.
C16_RequestCredentialFirst ==
    (rq.pc # "idle" /\ TruthyId(rq.request.api_key)) =>
        /\ ~(rq.pc = "done" /\ rq.response.error_type = "needs_key")
        /\ rq.attempts # <<>> => rq.llm.api_key = rq.request.api_key

\* The step ends a request with needs_key.
ReturnsNeedsKey ==
    /\ rq' # rq
    /\ rq'.pc = "done"
    /\ rq'.response.error_type = "needs_key"

\* The attempts the request of the step had made before it.
AttemptsBefore ==
    IF rq.pc = "running" THEN Len(rq.attempts) ELSE 0

C18_FailureNamesBackend ==
    (/\ rq.pc = "done"
     /\ rq.response.error_type \in {"provider_down", "needs_key"}) =>
        /\ rq.response.required_provider # NoneId
        /\ rq.response.required_provider = rq.current

\* C19: a preference-mode request makes at most one attempt, on the backend
\* it names: once its attempt is running, process_query is not invoked
\* again for it; when the attempt raises a backend-classified failure the
\* handler's next step ends the request with a failure response; and the
\* only backend ever tried, or reported as provider_used, is the named one.
C19_PreferenceSingleAttempt ==
    [][/\ (rq'.pc # "idle" /\ rq'.mode = "manual") =>
            LET target == lower(rq'.request.provider)
            IN  /\ Len(rq'.attempts) <= 1
                /\ \A i \in 1..Len(rq'.attempts) :
                       rq'.attempts[i].provider = target
                /\ rq'.attempts # <<>> => rq'.llm.provider = target
                /\ rq'.response.provider_used \in {NoneId, target}
                /\ rq'.response.success => rq'.response.provider_used = target
       /\ (rq.pc = "running" /\ rq.mode = "manual") =>
            /\ runs' = runs
            /\ rq'.served = rq.served
            /\ rq'.mode = "manual"
            /\ (/\ mg.pc = "raised"
                /\ mg.exc \in {"QuotaExhaustedError", "ProviderDownError"}
                /\ rq' # rq)
               => (/\ rq'.pc = "done"
                   /\ ~rq'.response.success
                   /\ rq'.response.error_type = "provider_down"
                   /\ Len(rq'.attempts) = 1
                   /\ rq'.attempts[1].outcome = mg.exc
                   /\ calls' = calls)]_vars

\* A preference request for gemini ended with the failure of its single
\* attempt while groq was Active and had a server key.
C19_Witness ==
    /\ rq.pc = "done"
    /\ rq.mode = "manual"
    /\ lower(rq.request.provider) = "gemini"
    /\ Len(rq.attempts) = 1
    /\ rq.attempts[1].outcome = "ProviderDownError"
    /\ ~rq.response.success
    /\ providers["groq"].status = ACTIVE
    /\ has_server_key(env, "groq")

\* part occurs in text.
Contains(text, part) ==
    \E i \in 1..Len(text) : text[i] = part

\* C20: when get_provider returns None for a request without a preferred
\* provider, the request is answered with HTTP status 503 and a JSON body
\* whose "detail" contains 'All LLM providers are down'.
C20_AllDownIs503 ==
    (/\ rq.pc = "done"
     /\ rq.mode = "auto"
     /\ pmOp.name = "get_provider"
     /\ pmOp.result = NoneId) =>
        /\ status_code(rq.response) = 503
        /\ "detail" \in DOMAIN response_json(rq.response)
        /\ Contains(response_json(rq.response).detail,
                    "All LLM providers are down")

\* C22: when process_query raises an exception that is not a backend
\* failure, in preference mode and in automatic mode alike, the handler's
\* next step ends the request with server_error carrying the exception's
\* text; it starts no further attempt, makes no backend call, and changes no
\* health record.
C22_UnclassifiedIsServerError ==
    [][(/\ rq.pc = "running"
        /\ mg.pc = "raised"
        /\ mg.exc = "ValueError"
        /\ rq' # rq)
       => (/\ rq'.pc = "done"
           /\ ~rq'.response.success
           /\ rq'.response.error_type = "server_error"
           /\ rq'.response.message = exception_text(mg.exc)
           /\ Len(rq'.attempts) = Len(rq.attempts)
           /\ rq'.attempts[Len(rq.attempts)].outcome = mg.exc
           /\ runs' = runs
           /\ calls' = calls
           /\ providers' = providers
           /\ marked' = marked)]_vars

\* An automatic request failed over from groq, and its attempt on gemini
\* ended with an exception that is no backend failure: server_error, with
\* gemini still Active.
C22_Witness ==
    /\ rq.pc = "done"
    /\ rq.mode = "auto"
    /\ rq.response.error_type = "server_error"
    /\ Len(rq.attempts) = 2
    /\ rq.attempts[1].outcome = "QuotaExhaustedError"
    /\ rq.attempts[2].provider = "gemini"
    /\ rq.attempts[2].outcome = "ValueError"
    /\ providers["gemini"].status = ACTIVE

\* The attempts of every invocation in flight or ended.
FlightAttempts ==
    UNION {{flights[i].attempts[k] : k \in 1..Len(flights[i].attempts)} :
           i \in {j \in 1..Len(flights) : flights[j].pc # "idle"}}

\* C23: with requests interleaved at their backend calls, a backend whose
\* record was set to QuotaExhausted at time T is neither Active in the
\* records nor chosen for an attempt at any later time up to T + 24 h,
\* whatever failures other requests in flight record for it in the meantime.
C23_QuotaWindowUnderInterleaving ==
    \A a \in FlightAttempts :
        a.recorded = QUOTA_EXHAUSTED =>
            /\ now <= a.ended_at + QuotaSeconds =>
                   providers[a.provider].status # ACTIVE
            /\ \A b \in FlightAttempts :
                   b.provider = a.provider =>
                       ~(/\ b.started_at > a.ended_at
                         /\ b.started_at <= a.ended_at + QuotaSeconds)

\* The step is the handler recording a backend failure of the attempt on n.
RecordsFailureOf(n) ==
    /\ rq.pc = "running"
    /\ rq.current = n
    /\ mg.pc = "raised"
    /\ mg.exc \in {"QuotaExhaustedError", "ProviderDownError"}
    /\ marked'[n] = [status |-> providers'[n].status, at |-> now]
    /\ rq'.attempts[Len(rq.attempts)].provider = n
    /\ rq'.attempts[Len(rq.attempts)].outcome = mg.exc

\* The step is a read of the provider manager that returns n.
ReadReturns(n) ==
    /\ pmOp'.name \in {"get_provider", "is_provider_active"}
    /\ pmOp'.at = now
    /\ pmOp'.result = n

\* C25: the health records form the transition system Active -> {Down,
\* QuotaExhausted} -> Active.  Every record's status is one of the three; a
\* record leaves Active, and its reset_time changes, only in a step that
\* records a failure of the attempt on that same backend; a record becomes
\* Active again only in a step in which a read at a time strictly after its
\* reset_time returns that backend; a step in which a request succeeds
\* changes no record; and a step changes no record other than that of the
\* backend whose failure it records and that of the backend its read
\* returns.
C25_HealthTransitions ==
    [][/\ \A n \in ProviderNames :
            /\ providers'[n].status \in {ACTIVE, DOWN, QUOTA_EXHAUSTED}
            /\ providers'[n].name = n
            /\ (providers[n].status = ACTIVE /\ providers'[n].status # ACTIVE)
                   => RecordsFailureOf(n)
            /\ providers'[n].reset_time # providers[n].reset_time
                   => RecordsFailureOf(n)
            /\ (providers[n].status # ACTIVE /\ providers'[n].status = ACTIVE)
                   => /\ now > providers[n].reset_time
                      /\ ReadReturns(n)
            /\ providers'[n] # providers[n]
                   => (RecordsFailureOf(n) \/ ReadReturns(n))
       /\ (rq.pc = "running" /\ rq'.pc = "done" /\ rq'.response.success)
              => providers' = providers]_vars

\* groq went Down, its minute passed, and a read brought it back to Active.
C25_Witness ==
    /\ providers["groq"].status = ACTIVE
    /\ marked["groq"].status = DOWN
    /\ providers["groq"].reset_time = marked["groq"].at + DownSeconds
    /\ pmOp.name \in {"get_provider", "is_provider_active"}
    /\ pmOp.result = "groq"
    /\ pmOp.was.status = DOWN
    /\ pmOp.at > providers["groq"].reset_time

\* C26: in preference mode, when the attempt on the preferred backend fails
\* with a backend failure, be it QuotaExhaustedError, ProviderDownError or
\* a plain ProviderError, the record of the preferred backend is set to
\* QuotaExhausted with reset_time = failure time + 24 h.
C26_PreferenceFailureMarksQuota ==
    (rq.pc # "idle" /\ rq.mode = "manual") =>
        \A i \in 1..Len(rq.attempts) :
            LET a == rq.attempts[i]
            IN  a.outcome \in {"QuotaExhaustedError", "ProviderDownError",
                               "ProviderError"} =>
                    a.ended[a.provider] =
                        [name |-> a.provider, status |-> QUOTA_EXHAUSTED,
                         reset_time |-> a.ended_at + QuotaSeconds]

\* The tool-result record for a call tc whose capability does not exist,
\* holding the text content.
UnknownRecord(tc, content) ==
    [role |-> "tool", tool_call_id |-> tc.id, name |-> tc.name,
     content |-> content]

\* The backend call just made answered with a tool call.
AnsweredWithToolCall ==
    /\ Len(calls') = Len(calls) + 1
    /\ Last(calls').response.raises = NoneId
    /\ Last(calls').response.tool_call # NoToolCall

\* C28: when a worker's response names a tool that is not in its registry,
\* or a manager's response names a delegation target that is not one of its
\* sub-agents, the loop appends one tool-result record saying that the tool
\* is unknown or the agent does not exist, runs no tool and no sub-agent,
\* raises nothing, writes nothing to the memory, and one turn of the budget
\* is used: the loop goes on to its next turn, or returns its timeout
\* answer when that was the last turn.
C28_UnknownCapability ==
    [][AnsweredWithToolCall =>
        LET e == Last(calls')
            tc == e.response.tool_call
        IN  /\ (e.by = "worker" /\ tc.name \notin wk.agent.tool_registry) =>
                /\ wk'.messages =
                       Append(wk.messages,
                              UnknownRecord(tc, <<"U+274C", " Unknown tool '">>
                                                    \o tc.name \o <<"'">>))
                /\ wk'.exc = NoneId
                /\ wk'.turn = wk.turn + 1
                /\ IF wk.turn + 1 < 5
                   THEN wk'.pc = "loop" /\ wk'.result = NoResult
                   ELSE wk'.pc = "done"
                        /\ wk'.result.content = <<"Agent timed out.">>
                /\ mg' = mg
                /\ memory' = memory
            /\ (/\ e.by = "manager"
                /\ tc.name[1] = "delegate_to_"
                /\ Tail(tc.name) \notin SubAgentNames(mg.agent)) =>
                /\ mg'.messages =
                       Append(mg.messages,
                              UnknownRecord(tc, <<"Error: Agent ">>
                                  \o Tail(tc.name) \o <<" does not exist.">>))
                /\ mg'.exc = NoneId
                /\ mg'.turn = mg.turn + 1
                /\ IF mg.turn + 1 < 5
                   THEN mg'.pc = "loop" /\ mg'.result = NoResult
                   ELSE mg'.pc = "done" /\ mg'.result = ManagerTimeout
                /\ wk' = wk
                /\ wk.pc = "idle"
                /\ memory' = memory]_vars

\* In one request the manager named the agent Ghost and went on, and the
\* sub-agent it then delegated to named ghost_tool and went on.
C28_Witness ==
    /\ mg.pc = "delegating"
    /\ wk.pc = "loop"
    /\ wk.turn >= 1
    /\ Last(calls).by = "worker"
    /\ Last(calls).response.tool_call # NoToolCall
    /\ Last(calls).response.tool_call.name = <<"ghost_tool">>
    /\ Last(wk.messages).role = "tool"
    /\ Last(wk.messages).tool_call_id = "call_3"
    /\ \E i \in 1..Len(mg.messages) :
        /\ mg.messages[i].role = "tool"
        /\ mg.messages[i].tool_call_id = "call_m2"
        /\ mg.messages[i].content =
               <<"Error: Agent ", "Ghost", " does not exist.">>

\* The backend call just made asked for a registered tool, and the tool
\* raised.
ToolRaised ==
    /\ Len(calls') = Len(calls) + 1
    /\ Last(calls').by = "worker"
    /\ CallsRegisteredTool(Last(calls'), wk.agent)
    /\ Last(calls').outcome.kind = "raise"

\* C29: when a registered tool raises while it runs, the worker appends the
\* assistant record of the call and a tool-result record with the same call
\* id whose content is "Tool Execution Failed: " followed by the text of the
\* exception, process_query does not raise, and the loop goes on to its
\* next turn (after the last turn it returns its timeout answer).
C29_ToolFailureContained ==
    [][ToolRaised =>
        LET e == Last(calls')
            tc == e.response.tool_call
            n == Len(wk.messages)
        IN  /\ Len(wk'.messages) = n + 2
            /\ SubSeq(wk'.messages, 1, n) = wk.messages
            /\ wk'.messages[n + 1].role = "assistant"
            /\ wk'.messages[n + 1].tool_calls[1].id = tc.id
            /\ wk'.messages[n + 2] =
                   [role |-> "tool", tool_call_id |-> tc.id, name |-> tc.name,
                    content |-> <<"Tool Execution Failed: ">> \o e.outcome.value]
            /\ wk'.exc = NoneId
            /\ wk'.pc # "raised"
            /\ wk'.turn = wk.turn + 1
            /\ IF wk.turn + 1 < 5
               THEN wk'.pc = "loop" /\ wk'.result = NoResult
               ELSE wk'.pc = "done"
                    /\ wk'.result.content = <<"Agent timed out.">>]_vars

\* The tool raised "Boom" at the first turn, the backend saw the failure
\* message at the second call and answered, and process_query returned
\* that answer.
C29_Witness ==
    /\ wk.pc = "done"
    /\ wk.result.content = <<"Final Answer">>
    /\ Len(calls) = 2
    /\ calls[1].outcome = Raised(<<"Boom">>)
    /\ Last(calls[2].messages).role = "tool"
    /\ Last(calls[2].messages).content = <<"Tool Execution Failed: ", "Boom">>
    /\ Last(calls[2].messages).tool_call_id = "call_1"

\* The system record of the application's manager: its system prompt
\* followed by the roster of its team and the fixed instructions.
ManagerSystemRecord ==
    [role |-> "system",
     content |-> <<"You are a manager.",
                   "\nYou manage a team of agents: [", "PriceWorker",
                   "].\nDelegate tasks to them using the available tools.\n",
                   "Combine their outputs into a comprehensive final answer.",
                   "Use the conversation history to answer follow-up questions.">>]

\* The entries msgs fit the budget of the memory.
FitsBudget(msgs) == buffer_tokens(msgs) <= memory.max_tokens

\* C30: the conversation of the manager's first backend call is the system
\* record (system prompt plus roster) followed by the whole history of the
\* memory as it is right after the user query was appended and the oldest
\* entries were evicted against the budget: it ends with the current query,
\* and before it come the retained entries of earlier requests, in their
\* order and without a gap, as many of them as the budget holds.
C30_ManagerConversation ==
    [][/\ (runs' = runs + 1) =>
            LET q == mg'.user_query
                all == Append(memory.messages, UserEntry(q))
                kept == memory'.messages
                dropped == Len(all) - Len(kept)
            IN  /\ mg'.messages = <<ManagerSystemRecord>> \o kept
                /\ mg'.turn = 0
                /\ kept # <<>>
                /\ IsSuffix(kept, all)
                /\ Last(kept) = UserEntry(q)
                /\ FitsBudget(kept) \/ Len(kept) = 1
                /\ dropped > 0 =>
                       ~FitsBudget(SubSeq(all, dropped, Len(all)))
       /\ (calls = <<>> /\ calls' # <<>>) =>
            /\ calls'[1].by = "manager"
            /\ calls'[1].messages = mg.messages
            /\ mg.turn = 0
            /\ mg.messages = <<ManagerSystemRecord>> \o memory.messages
            /\ Last(calls'[1].messages) = UserEntry(mg.user_query)]_vars

\* The first backend call of a second request carries the first request's
\* query and answer before the second query.
C30_Witness ==
    /\ runs = 2
    /\ Len(calls) >= 1
    /\ Len(calls[1].messages) = 4
    /\ calls[1].messages[1] = ManagerSystemRecord
    /\ calls[1].messages[2].role = "user"
    /\ calls[1].messages[3].role = "assistant"
    /\ calls[1].messages[4] = UserEntry(mg.user_query)

\* An entry of the memory is a user query or a final answer of the manager:
\* a record of role and content only.
IsMemoryEntry(entry) ==
    /\ DOMAIN entry = {"role", "content"}
    /\ \/ entry.role = "user" /\ entry.content \in ManagerQueries
       \/ /\ entry.role = "assistant"
          /\ \E r \in ManagerInputs :
                /\ r.raises = NoneId
                /\ r.tool_call = NoToolCall
                /\ Truthy(r.content)
                /\ entry.content = r.content

\* C31: the records a manager or worker loop appends during its turns go
\* only into that loop's own conversation.  A step that extends the
\* manager's conversation leaves the worker's conversation and the memory
\* as they are, a step that extends the worker's conversation leaves the
\* manager's conversation and the memory as they are, and the memory
\* changes during a loop only when the manager returns final content, by
\* the one assistant entry saved through add_message; so the memory holds
\* only user queries and final assistant answers.
C31_ConversationOwnership ==
    [][/\ \A i \in 1..Len(memory'.messages) : IsMemoryEntry(memory'.messages[i])
       /\ (mg.pc = "loop" /\ mg'.pc \in {"loop", "delegating"}
               /\ mg'.messages # mg.messages) =>
            /\ memory' = memory
            /\ IsPrefix(mg.messages, mg'.messages)
       /\ (mg.pc = "delegating") =>
            /\ memory' = memory
            /\ IF wk'.pc # "idle"
               THEN /\ mg'.messages = mg.messages
                    /\ IsPrefix(wk.messages, wk'.messages)
               ELSE /\ Len(mg'.messages) = Len(mg.messages) + 1
                    /\ IsPrefix(mg.messages, mg'.messages)
       /\ (mg.pc \in {"loop", "delegating"} /\ memory' # memory) =>
            /\ mg'.pc = "done"
            /\ mg'.result.metadata = EmptyDict
            /\ mg'.messages = mg.messages
            /\ IsSuffix(memory'.messages,
                        Append(memory.messages,
                               AssistantEntry(mg'.result.content)))
            /\ Last(memory'.messages) = AssistantEntry(mg'.result.content)]_vars

\* After a delegation whose records (assistant call, tool result) are in
\* the manager's conversation, the memory holds the user query alone.
C31_Witness ==
    /\ mg.pc = "loop"
    /\ memory.messages = <<UserEntry(mg.user_query)>>
    /\ Len(mg.messages) = 4
    /\ mg.messages[2] = UserEntry(mg.user_query)
    /\ "tool_calls" \in DOMAIN mg.messages[3]
    /\ mg.messages[4].role = "tool"

\* The user entries among the entries entries.
UserEntries(entries) ==
    {i \in 1..Len(entries) : entries[i].role = "user"}

\* C32: one request adds exactly one user entry for its query to the
\* memory, however many backends are attempted.  For the first request
\* served by the application: once an attempt has started the memory holds
\* one user entry, that of the request's query, and after a success it is
\* that entry followed by the assistant answer.
C32_OneUserEntryPerRequest ==
    (rq.pc # "idle" /\ rq.served = 1 /\ rq.attempts # <<>>) =>
        /\ Cardinality(UserEntries(appended)) = 1
        /\ Cardinality(UserEntries(memory.messages)) = 1
        /\ memory.messages[1] = UserEntry(rq.request.query)
        /\ (rq.pc = "done" /\ rq.response.success) =>
              memory.messages =
                  <<UserEntry(rq.request.query),
                    AssistantEntry(rq.response.response)>>

BackendFailures == {"QuotaExhaustedError", "ProviderDownError"}

\* The last backend call was made by a delegated worker and raised a
\* backend failure.
DelegatedCallFailed ==
    /\ calls # <<>>
    /\ Last(calls).by = "worker"
    /\ Last(calls).response.raises \in BackendFailures

\* C33: a backend failure raised by a backend call of a delegated worker
\* never reaches the failover logic.  The step of the failing call and the
\* step in which the manager takes the worker's outcome change no health
\* record, record no failure and leave the request's attempt, backend and
\* handle as they are; the manager does not raise but goes on to its next
\* turn (or its timeout return) with a tool-result record.  A failure is
\* recorded, or a further attempt started, only on a step taken when the
\* manager's own backend call has raised.
C33_DelegatedFailureStaysInside ==
    [][/\ (mg.pc = "delegating" /\ rq.pc = "running") =>
            /\ providers' = providers
            /\ marked' = marked
            /\ rq' = rq
            /\ (wk.pc = "raised" /\ wk.exc \in BackendFailures) =>
                  /\ mg'.pc \in {"loop", "done"}
                  /\ mg'.exc = NoneId
                  /\ mg'.turn = mg.turn + 1
                  /\ mg'.pc = "done" => mg'.result = ManagerTimeout
                  /\ Last(mg'.messages).role = "tool"
       /\ (rq.pc = "running"
               /\ (marked' # marked
                       \/ Len(rq'.attempts) > Len(rq.attempts))) =>
            /\ mg.pc = "raised"
            /\ Last(calls).by = "manager"
            /\ Last(calls).response.raises = mg.exc
            /\ mg.exc \in BackendFailures]_vars

\* In automatic mode the delegated worker's backend call raised
\* QuotaExhaustedError; the manager is at its next turn of the same, first
\* attempt on groq, and both backends are still Active and unmarked.
C33_Witness ==
    /\ rq.pc = "running"
    /\ rq.mode = "auto"
    /\ Len(rq.attempts) = 1
    /\ rq.current = "groq"
    /\ mg.pc = "loop"
    /\ mg.turn = 1
    /\ DelegatedCallFailed
    /\ Last(calls).response.raises = "QuotaExhaustedError"
    /\ \A n \in ProviderNames : providers[n].status = ACTIVE
    /\ marked = NoMarks

\* Some invocation with the query of the user entry u was answered with
\* the content of the assistant entry a.
Answers(a, u) ==
    \E i \in 1..Len(flights) :
        /\ flights[i].pc = "done"
        /\ flights[i].response.success
        /\ flights[i].request.query = u.content
        /\ flights[i].response.response = a.content

\* C34: also when the manager loops of two requests interleave on the
\* shared memory, each assistant entry in the memory is immediately
\* preceded by the user entry of the request it answers (the budget of the
\* application's memory is large enough that nothing is evicted here).
C34_PairingUnderInterleaving ==
    \A i \in 1..Len(memory.messages) :
        memory.messages[i].role = "assistant" =>
            /\ i > 1
            /\ memory.messages[i - 1].role = "user"
            /\ Answers(memory.messages[i], memory.messages[i - 1])

\* The capabilities offered for the sub-agent named n.
OfferedFor(manager, n) ==
    {i \in 1..Len(delegation_definitions(manager)) :
        delegation_definitions(manager)[i] = <<"delegate_to_">> \o n}

\* C35: for every registered sub-agent name n, names containing the text
\* "delegate_to_" included, the capability delegate_to_n is offered exactly
\* once, and when the backend calls delegate_to_n the manager invokes the
\* sub-agent n and no other, with the query argument of the call.
C35_DispatchFaithful ==
    mg.pc # "idle" =>
        \A n \in SubAgentNames(mg.agent) :
            /\ Cardinality(OfferedFor(mg.agent, n)) = 1
            /\ (/\ calls # <<>>
                /\ Last(calls).by = "manager"
                /\ Last(calls).response.tool_call # NoToolCall
                /\ Last(calls).response.tool_call.name = <<"delegate_to_">> \o n)
               =>
                /\ mg.pc = "delegating"
                /\ wk.pc = "loop"
                /\ wk.agent.name = n
                /\ wk.messages =
                       <<[role |-> "system", content |-> wk.agent.system_prompt],
                         UserEntry(Last(calls).response.tool_call.args.query)>>

\* The last k of the messages appended since the last clear.
NewestAppended(k) ==
    SubSeq(appended, Len(appended) - k + 1, Len(appended))

\* The lengths of the non-empty suffixes of the appended messages whose
\* token counts sum to at most the budget.
FittingLengths ==
    {k \in 1..Len(appended) :
        buffer_tokens(NewestAppended(k)) <= memory.max_tokens}

\* C36: after every add_message the retained history is the longest suffix
\* of the messages appended since the last clear whose token counts sum to
\* at most max_tokens, or the last message alone when no non-empty suffix
\* fits; so no message is evicted while the buffer with it would fit.
C36_NoOverEviction ==
    memOp.name = "add_message" =>
        LET kept == get_history(memory)
        IN  /\ kept = NewestAppended(Len(kept))
            /\ IF FittingLengths = {}
               THEN Len(kept) = 1
               ELSE /\ Len(kept) \in FittingLengths
                    /\ \A k \in FittingLengths : k <= Len(kept)

\* Three messages fill the budget exactly and all are retained, after an
\* older message was evicted.
C36_Witness ==
    /\ memOp.name = "add_message"
    /\ Len(appended) = 4
    /\ Len(get_history(memory)) = 3
    /\ buffer_tokens(get_history(memory)) = memory.max_tokens
    /\ memory.max_tokens = MaxBudget

\* A response without a capability call and without non-empty content.
IsBlank(response) ==
    /\ response.raises = NoneId
    /\ response.tool_call = NoToolCall
    /\ response.content = None \/ response.content = <<>>

\* A response to the manager that is blank, or that calls a capability
\* whose name does not begin with "delegate_to_" (such a response of the
\* backends carries no content).
IsBlankForManager(response) ==
    \/ IsBlank(response)
    \/ /\ response.raises = NoneId
       /\ response.tool_call # NoToolCall
       /\ response.tool_call.name[1] # "delegate_to_"
       /\ response.content = None

\* The last five backend calls were made by `by` and answered blank.
FiveBlankInARow(by) ==
    /\ Len(calls) >= 5
    /\ \A i \in (Len(calls) - 4)..Len(calls) :
        /\ calls[i].by = by
        /\ IF by = "manager" THEN IsBlankForManager(calls[i].response)
           ELSE IsBlank(calls[i].response)

\* C37: a response with neither a capability call nor non-empty content,
\* and for the manager also a call of a capability that is no delegation,
\* uses one turn and appends nothing: the loop's conversation, the other
\* loop and the memory are unchanged, the next backend call of the loop
\* receives the identical conversation, and five such responses in a row
\* end in the loop's timeout result.
C37_BlankResponse ==
    [][/\ (Len(calls') = Len(calls) + 1 /\ Last(calls').by = "worker"
               /\ IsBlank(Last(calls').response)) =>
            /\ wk'.messages = wk.messages
            /\ wk'.turn = wk.turn + 1
            /\ wk'.exc = NoneId
            /\ IF wk.turn + 1 < 5 THEN wk'.pc = "loop"
               ELSE wk'.pc = "done" /\ wk'.result.content = <<"Agent timed out.">>
            /\ mg' = mg
            /\ memory' = memory
       /\ (Len(calls') = Len(calls) + 1 /\ Last(calls').by = "manager"
               /\ IsBlankForManager(Last(calls').response)) =>
            /\ mg'.messages = mg.messages
            /\ mg'.turn = mg.turn + 1
            /\ mg'.exc = NoneId
            /\ IF mg.turn + 1 < 5 THEN mg'.pc = "loop"
               ELSE /\ mg'.pc = "done"
                    /\ mg'.result.content =
                           <<"Manager timed out while coordinating agents.">>
            /\ wk' = wk
            /\ memory' = memory
       /\ \A i \in 1..(Len(calls') - 1) :
            /\ (calls'[i].by = "worker" /\ IsBlank(calls'[i].response)
                    /\ calls'[i + 1].by = "worker") =>
                  calls'[i + 1].messages = calls'[i].messages
            /\ (calls'[i].by = "manager"
                    /\ IsBlankForManager(calls'[i].response)) =>
                  /\ calls'[i + 1].by = "manager"
                  /\ calls'[i + 1].messages = calls'[i].messages
       /\ FiveBlankInARow("manager")' =>
            mg'.pc = "done" /\ mg'.result = ManagerTimeout
       /\ (FiveBlankInARow("worker")' /\ wk'.pc # "idle") =>
            wk'.pc = "done" /\ wk'.result = WorkerTimeout]_vars

\* The manager got a call of a capability that is no delegation and a blank
\* response, delegated, and the sub-agent got five blank responses and
\* timed out; the manager's conversation holds the delegation's records.
C37_Witness ==
    /\ mg.pc = "delegating"
    /\ mg.turn = 2
    /\ Len(mg.messages) = 3
    /\ wk.pc = "done"
    /\ wk.result = WorkerTimeout
    /\ wk.turn = 5
    /\ Len(wk.messages) = 2
    /\ FiveBlankInARow("worker")
    /\ calls[1].response.tool_call # NoToolCall
    /\ calls[2].response = LLMResponse(None, NoToolCall)

\* The backend calls of the sub-agents in this invocation.
WorkerCalls ==
    {i \in 1..Len(calls) : calls[i].by = "worker"}

\* The delegated worker runs of this invocation: the manager's calls that
\* were answered with a delegation to a registered sub-agent.
DelegatedRuns ==
    {i \in ManagerCalls :
        /\ calls[i].response.raises = NoneId
        /\ calls[i].response.tool_call # NoToolCall
        /\ calls[i].response.tool_call.name[1] = "delegate_to_"
        /\ Tail(calls[i].response.tool_call.name) \in SubAgentNames(mg.agent)}

\* The worker calls of the delegated run started by the manager call i.
CallsOfRun(i) ==
    {j \in WorkerCalls :
        /\ j > i
        /\ \A k \in ManagerCalls : k <= i \/ k > j}

BackendUsageBounded ==
    mg.pc # "idle" =>
        /\ Len(calls) <= 30
        /\ Cardinality(ManagerCalls) <= 5
        /\ Cardinality(DelegatedRuns) <= 5
        /\ \A i \in DelegatedRuns : Cardinality(CallsOfRun(i)) <= 5
        /\ \A j \in WorkerCalls : \E i \in DelegatedRuns : j \in CallsOfRun(i)
        /\ \A i \in 1..Len(calls) : calls[i].provider = mg.provider

\* C38: one invocation of ManagerAgent.process_query makes at most 30
\* backend calls: at most 5 by the manager and at most 5 by each of at most
\* 5 delegated worker runs, every one of them on the backend handle the
\* invocation was given; and with backend and tool calls that return, the
\* invocation always comes to its end.
C38_BoundedBackendUsage ==
    /\ []BackendUsageBounded
    /\ (mg.pc \in {"loop", "delegating"}) ~> (mg.pc \in {"done", "raised"})

\* The invocation used all 30 calls: five delegations, five calls in each
\* worker run, and the manager's timeout at the end.
C38_Witness ==
    /\ mg.pc = "done"
    /\ mg.result = ManagerTimeout
    /\ Len(calls) = 30
    /\ Cardinality(ManagerCalls) = 5
    /\ Cardinality(DelegatedRuns) = 5
    /\ \A i \in DelegatedRuns : Cardinality(CallsOfRun(i)) = 5

==============================================================================
